---- MODULE Spec2Model ----
(***************************************************************************)
(* Model of the database migration tool: the CLI commands schema, pull and *)
(* push, the SchemaMigrator and the DataMigrator (MigrateAll /             *)
(* migrateTable) with its batched destination transactions.                *)
(*                                                                         *)
(* Every action is one call the program makes to a database or to an       *)
(* external tool, together with the code that runs up to the next call.    *)
(* A call that can fail is taken with either outcome.                      *)
(***************************************************************************)
EXTENDS Integers, Sequences, FiniteSets, TLC

\* ---------------------------------------------------------------- bounds
\* largest number of rows of the remote table "orders"
MaxRows == 3
\* largest number of rows of the remote table "users"
MaxRowsUsers == 1
\* largest configured batch size
MaxBatch == 2
\* largest number of rows a local table holds before the run
MaxStale == 1

\* ------------------------------------------------------------ databases
\* the two database instances of the configuration (cfg.Remote, cfg.Local)
Databases == {"remote", "local"}

\* the tables of the public schema, in ORDER BY tablename order
TableOrder == <<"orders", "users">>

TableNames == {TableOrder[i] : i \in 1..Len(TableOrder)}

\* foreign keys <<referencing table, referenced table>>: Order.user_id
References == {<<"orders", "users">>}

\* tables emptied by TRUNCATE TABLE t CASCADE: t and every table that
\* references a table already in the set
RECURSIVE CascadeFrom(_)
CascadeFrom(S) ==
    LET more == {u \in TableNames : \E t \in S : <<u, t>> \in References}
    IN  IF more \subseteq S THEN S ELSE CascadeFrom(S \cup more)

CascadeSet(t) == CascadeFrom({t})

\* rows 1..n of a remote table, rows -1..-n of a local table
RemoteRows(n) == [i \in 1..n |-> i]
LocalRows(n) == [i \in 1..n |-> 0 - i]

Range(s) == {s[i] : i \in 1..Len(s)}

\* -------------------------------------------------------------- strings
\* a string is the sequence of its bytes, as len and indexing see it in Go.
\* An ASCII character is one byte, written as the character; a byte of a
\* two-byte UTF-8 character is written as its two hexadecimal digits
\* ("C3", "A9" are the bytes of U+00E9, e with acute accent)
UpperChars ==
    <<"A", "B", "C", "D", "E", "F", "G", "H", "I", "J", "K", "L", "M", "N",
    "O", "P", "Q", "R", "S", "T", "U", "V", "W", "X", "Y", "Z">>
LowerChars ==
    <<"a", "b", "c", "d", "e", "f", "g", "h", "i", "j", "k", "l", "m", "n",
    "o", "p", "q", "r", "s", "t", "u", "v", "w", "x", "y", "z">>
DigitChars == <<"0", "1", "2", "3", "4", "5", "6", "7", "8", "9">>

\* strings.ToLower
ToLowerChar(c) ==
    IF \E i \in 1..Len(UpperChars) : UpperChars[i] = c
    THEN LowerChars[CHOOSE i \in 1..Len(UpperChars) : UpperChars[i] = c]
    ELSE c
ToLower(s) == [i \in 1..Len(s) |-> ToLowerChar(s[i])]

\* strings.Contains
Contains(s, sub) ==
    \E i \in 0..(Len(s) - Len(sub)) : SubSeq(s, i + 1, i + Len(sub)) = sub

\* string(s[i]): the conversion of one byte to a string is the UTF-8
\* encoding of the code point with the value of the byte, which is the byte
\* itself only below 0x80 (0xC3 gives U+00C3, the bytes C3 83)
ByteString(b) ==
    IF b = "C3" THEN <<"C3", "83">>
    ELSE IF b = "A9" THEN <<"C2", "A9">>
    ELSE IF b = "83" THEN <<"C2", "83">>
    ELSE <<b>>

\* strings.Repeat of one character
Repeat(c, n) == [i \in 1..n |-> c]

\* regexp \D replaced by "": the digits of s
IsDigit(c) == \E i \in 1..Len(DigitChars) : DigitChars[i] = c
OnlyDigits(s) == SelectSeq(s, IsDigit)

\* the number of occurrences of character c in s, and the first of them
Count(s, c) == Len(SelectSeq(s, LAMBDA x : x = c))
IndexOf(s, c) ==
    CHOOSE i \in 1..Len(s) : s[i] = c /\ \A j \in 1..(i - 1) : s[j] # c

\* strings.Fields: the maximal runs of non-space characters of s
RECURSIVE FieldsFrom(_, _, _)
FieldsFrom(s, i, cur) ==
    IF i > Len(s)
    THEN IF cur = <<>> THEN <<>> ELSE <<cur>>
    ELSE IF s[i] = " "
         THEN (IF cur = <<>> THEN <<>> ELSE <<cur>>)
                 \o FieldsFrom(s, i + 1, <<>>)
         ELSE FieldsFrom(s, i + 1, Append(cur, s[i]))
Fields(s) == FieldsFrom(s, 1, <<>>)

\* strings.Join
RECURSIVE Join(_, _)
Join(parts, sep) ==
    IF Len(parts) = 0 THEN <<>>
    ELSE IF Len(parts) = 1 THEN parts[1]
    ELSE parts[1] \o sep \o Join(Tail(parts), sep)

\* mutant of Pad4: the number is written without leading zeros
Pad4Unpadded(n) ==
    IF n < 10 THEN <<DigitChars[n + 1]>>
    ELSE IF n < 100
    THEN <<DigitChars[(n \div 10) + 1], DigitChars[(n % 10) + 1]>>
    ELSE IF n < 1000
    THEN <<DigitChars[(n \div 100) + 1], DigitChars[((n \div 10) % 10) + 1],
           DigitChars[(n % 10) + 1]>>
    ELSE <<DigitChars[((n \div 1000) % 10) + 1],
           DigitChars[((n \div 100) % 10) + 1],
           DigitChars[((n \div 10) % 10) + 1], DigitChars[(n % 10) + 1]>>

\* fmt %04d of n in 0..9999, and fmt %d of n >= 0
Pad4(n) ==
    <<DigitChars[((n \div 1000) % 10) + 1], DigitChars[((n \div 100) % 10) + 1],
      DigitChars[((n \div 10) % 10) + 1], DigitChars[(n % 10) + 1]>>
RECURSIVE Decimal(_)
Decimal(n) ==
    IF n < 10 THEN <<DigitChars[n + 1]>>
    ELSE Decimal(n \div 10) \o <<DigitChars[(n % 10) + 1]>>

\* anonymizer.min
min(a, b) == IF a < b THEN a ELSE b

\* ----------------------------------------------------------- anonymizer
\* the values crypto/rand yields in the model; randomInt reduces one to
\* its range
Draws == {0, 1, 2, 4242, 9999}

\* randomInt(max) with the random number r; 0 when max <= 0
randomInt(max, r) == IF max <= 0 THEN 0 ELSE r % max

\* Anonymizer.domains
domains ==
    <<<<"e", "x", "a", "m", "p", "l", "e", ".", "c", "o", "m">>,
      <<"t", "e", "s", "t", ".", "c", "o", "m">>,
      <<"s", "a", "m", "p", "l", "e", ".", "o", "r", "g">>>>

AnonymousEmail ==
    <<"a", "n", "o", "n", "y", "m", "o", "u", "s", "@", "e", "x", "a", "m",
    "p", "l", "e", ".", "c", "o", "m">>
PlaceholderPhone == <<"+", "1", "-", "5", "5", "5", "-", "0", "1", "0", "0">>

\* Anonymizer.AnonymizeEmail
AnonymizeEmail(email, r) ==
    IF email = <<>> THEN <<>>
    ELSE IF Count(email, "@") + 1 # 2 THEN AnonymousEmail
    ELSE LET username == SubSeq(email, 1, IndexOf(email, "@") - 1)
         IN  IF Len(username) > 0
             THEN ByteString(username[1])
                     \o Repeat("*", min(Len(username) - 1, 5))
                     \o <<"@">> \o domains[randomInt(Len(domains), r) + 1]
             ELSE AnonymousEmail

\* Anonymizer.AnonymizePhone
AnonymizePhone(phone, r) ==
    IF phone = <<>> THEN <<>>
    ELSE LET digits == OnlyDigits(phone)
         IN  IF Len(digits) = 0 THEN PlaceholderPhone
             ELSE IF Len(digits) >= 10
                  THEN <<"+">> \o SubSeq(digits, 1, 2)
                          \o <<"-", "5", "5", "5", "-">>
                          \o Pad4(randomInt(10000, r))
                  ELSE PlaceholderPhone

\* Anonymizer.AnonymizeName
AnonymizeName(name) ==
    IF name = <<>> THEN <<>>
    ELSE LET parts == Fields(name)
         IN  IF Len(parts) = 0
             THEN <<"A", "n", "o", "n", "y", "m", "o", "u", "s", " ", "U",
                  "s", "e", "r">>
             ELSE Join([i \in 1..Len(parts) |->
                          ByteString(parts[i][1]) \o <<"*", "*", "*">>],
                       <<" ">>)

\* Anonymizer.AnonymizePassword: the bcrypt hash of "changeme123" with the
\* salt r, or the pre-computed hash when bcrypt fails (r = 0); a hash is
\* the sequence version-and-cost, salt, digest
AnonymizePassword(r) ==
    IF r = 0
    THEN <<"$2a$10$", "N9qo8uLOickgx2ZMRZoMye",
           "IjZAgcfl7p92ldGxad68LJZdL17lhWy">>
    ELSE <<"$2a$10$">> \o Decimal(r) \o <<"bcrypt(changeme123)">>

\* Anonymizer.AnonymizeSSN
AnonymizeSSN(ssn, r) ==
    IF ssn = <<>> THEN <<>>
    ELSE <<"*", "*", "*", "-", "*", "*", "-">> \o Pad4(randomInt(10000, r))

\* Anonymizer.AnonymizeCreditCard
AnonymizeCreditCard(cc) ==
    IF cc = <<>> THEN <<>>
    ELSE LET digits == OnlyDigits(cc)
         IN  IF Len(digits) >= 4
             THEN <<"*", "*", "*", "*", "-", "*", "*", "*", "*", "-",
                    "*", "*", "*", "*", "-">>
                     \o SubSeq(digits, Len(digits) - 3, Len(digits))
             ELSE <<"*", "*", "*", "*", "-", "*", "*", "*", "*", "-",
                    "*", "*", "*", "*", "-">>
                     \o <<"0", "0", "0", "0">>

\* Anonymizer.AnonymizeAddress
AnonymizeAddress(address, r) ==
    IF address = <<>> THEN <<>>
    ELSE Decimal(randomInt(9999, r) + 1) \o
         <<" ", "A", "n", "o", "n", "y", "m", "o", "u", "s", " ", "S", "t", "r",
         "e", "e", "t", ",", " ", "P", "r", "i", "v", "a", "c", "y", " ", "C",
         "i", "t", "y", ",", " ", "X", "X", " ", "0", "0", "0", "0", "0">>

\* the patterns of the rules of AnonymizeValue, in the order of the switch
EmailPatterns == <<<<"e", "m", "a", "i", "l">>, <<"m", "a", "i", "l">>>>
PhonePatterns ==
    <<<<"p", "h", "o", "n", "e">>, <<"m", "o", "b", "i", "l", "e">>,
      <<"t", "e", "l">>>>
PasswordPatterns ==
    <<<<"p", "a", "s", "s", "w", "o", "r", "d">>,
      <<"p", "a", "s", "s", "w", "d">>, <<"p", "w", "d">>>>
NamePatterns ==
    <<<<"n", "a", "m", "e">>,
      <<"f", "i", "r", "s", "t", "n", "a", "m", "e">>,
      <<"l", "a", "s", "t", "n", "a", "m", "e">>,
      <<"f", "u", "l", "l", "n", "a", "m", "e">>>>
SsnPatterns == <<<<"s", "s", "n">>, <<"s", "o", "c", "i", "a", "l">>>>
CreditPatterns ==
    <<<<"c", "r", "e", "d", "i", "t">>, <<"c", "a", "r", "d">>,
      <<"c", "c">>>>
AddressPatterns ==
    <<<<"a", "d", "d", "r", "e", "s", "s">>,
      <<"s", "t", "r", "e", "e", "t">>, <<"a", "d", "d", "r">>>>

\* anonymizer.containsAny
containsAny(str, substrings) ==
    \E k \in 1..Len(substrings) : Contains(str, substrings[k])

\* a value of a column: null, string, number, time or bytes, with its
\* content as characters (empty for null)
Value(type, v) == [type |-> type, v |-> v]
Null == Value("null", <<>>)

\* mutant of RuleOf: the address case is tried before the others
RuleOfAddressFirst(fieldLower) ==
    CASE containsAny(fieldLower, AddressPatterns) -> "address"
      [] containsAny(fieldLower, EmailPatterns) -> "email"
      [] containsAny(fieldLower, PhonePatterns) -> "phone"
      [] containsAny(fieldLower, PasswordPatterns) -> "password"
      [] containsAny(fieldLower, NamePatterns) -> "name"
      [] containsAny(fieldLower, SsnPatterns) -> "ssn"
      [] containsAny(fieldLower, CreditPatterns) -> "credit"
      [] OTHER -> "default"

\* mutant of RuleOf: a name that matches no case is masked like a name
RuleOfNoDefault(fieldLower) ==
    CASE containsAny(fieldLower, EmailPatterns) -> "email"
      [] containsAny(fieldLower, PhonePatterns) -> "phone"
      [] containsAny(fieldLower, PasswordPatterns) -> "password"
      [] containsAny(fieldLower, SsnPatterns) -> "ssn"
      [] containsAny(fieldLower, CreditPatterns) -> "credit"
      [] containsAny(fieldLower, AddressPatterns) -> "address"
      [] OTHER -> "name"

\* the rule of the switch of AnonymizeValue that the lower-cased field
\* name selects
RuleOf(fieldLower) ==
    CASE containsAny(fieldLower, EmailPatterns) -> "email"
      [] containsAny(fieldLower, PhonePatterns) -> "phone"
      [] containsAny(fieldLower, PasswordPatterns) -> "password"
      [] containsAny(fieldLower, NamePatterns) -> "name"
      [] containsAny(fieldLower, SsnPatterns) -> "ssn"
      [] containsAny(fieldLower, CreditPatterns) -> "credit"
      [] containsAny(fieldLower, AddressPatterns) -> "address"
      [] OTHER -> "default"

\* mutant of IsString: the type assertion is taken to succeed
IsStringAlways(value) == TRUE

\* the type assertion value.(string) of AnonymizeValue
IsString(value) == value.type = "string"

\* mutant of PasswordCase: an empty password is kept, as the other rules
\* keep an empty string
PasswordCaseKeepsEmpty(strValue, r) ==
    IF strValue = <<>> THEN <<>> ELSE AnonymizePassword(r)

\* the password case of the switch: return a.AnonymizePassword(), which
\* takes no argument
PasswordCase(strValue, r) == AnonymizePassword(r)

\* Anonymizer.AnonymizeValue with the random number r
AnonymizeValue(fieldName, value, r) ==
    IF value = Null THEN Null
    ELSE IF ~IsString(value) THEN value
    ELSE LET rule == RuleOf(ToLower(fieldName))
             strValue == value.v
         IN  CASE rule = "email" -> Value("string", AnonymizeEmail(strValue, r))
               [] rule = "phone" -> Value("string", AnonymizePhone(strValue, r))
               [] rule = "password" ->
                     Value("string", PasswordCase(strValue, r))
               [] rule = "name" -> Value("string", AnonymizeName(strValue))
               [] rule = "ssn" -> Value("string", AnonymizeSSN(strValue, r))
               [] rule = "credit" ->
                     Value("string", AnonymizeCreditCard(strValue))
               [] rule = "address" ->
                     Value("string", AnonymizeAddress(strValue, r))
               [] OTHER -> value

VARIABLES
    cmd,          \* the CLI command: "schema", "pull", "push" or "verify"
    dryRun,       \* the --dry-run flag of the schema command
    config,       \* cfg.Migration
    db,           \* db[d][t]: the committed rows of table t of database d
    schemaApplied,\* schemaApplied[d]: a schema change was applied to d
    m,            \* the DataMigrator's two handles: remoteDB and localDB
    pc,           \* position of the command
    tables,       \* MigrateAll: the resolved table list
    idx,          \* MigrateAll: index of the table being migrated
    results,      \* MigrateAll: the results appended so far
    runErr,       \* the error the command ended with ("" for none)
    cursor,       \* rows: number of source rows the cursor has yielded
    cursorErr,    \* rows.Err() is non-nil
    tx,           \* "open" while a destination transaction is open
    txRows,       \* rows inserted in the open transaction
    rowCount,     \* migrateTable: rowCount
    batchCount,   \* migrateTable: batchCount
    values,       \* migrateTable: the source row that was scanned
    log,          \* every call issued to a database, in order
    cancelled,    \* the context of the command is cancelled
    columns,      \* migrateTable: columns
    selectQuery,  \* migrateTable: the columns of selectQuery
    insertQuery,  \* migrateTable: the columns of insertQuery
    cells,        \* migrateTable: the slice values of the scanned row
    fieldName,    \* AnonymizeValue: the argument fieldName
    value,        \* AnonymizeValue: the argument value
    result,       \* AnonymizeValue: the value returned
    catalog,      \* the tables of the public schema of each database
    loaded,       \* config.Load: the Config as unmarshalled
    schemaErr,    \* the error VerifySchema returned
    report,       \* GenerateReport: the counts and totals of the report
    autoStart,    \* docker.Client: autoStart
    composeFound, \* the file docker.Client.composeFile names exists
    running,      \* the Postgres container is running
    ready,        \* Postgres in the container accepts connections
    isRunning,    \* EnsureRunning: what its call of IsRunning returned
    starts,       \* number of times Client.Start was invoked
    elapsed,      \* WaitForHealthy: whole seconds since it was called
    lastPoll      \* WaitForHealthy: how the last poll ended

vars == <<cmd, dryRun, config, db, schemaApplied, m, pc, tables, idx,
          results, runErr, cursor, cursorErr, tx, txRows, rowCount,
          batchCount, values, log, cancelled, columns, selectQuery,
          insertQuery, cells, fieldName, value, result, catalog, loaded,
          schemaErr, report, autoStart, composeFound, running, ready,
          isRunning, starts, elapsed, lastPoll>>

\* the variables of one table copy
copyVars == <<cursor, cursorErr, tx, txRows, rowCount, batchCount, values>>
\* the inputs of the run
inputVars == <<cmd, dryRun, config, catalog, loaded>>
\* the variables of the docker client
dockerVars == <<autoStart, composeFound, running, ready, isRunning, starts,
                elapsed, lastPoll>>
\* the variables of the verify command
verifyVars == <<schemaErr, report>>
\* the column lists and the row values of one table copy
stmtVars == <<columns, selectQuery, insertQuery, cells>>
\* the variables of a call of AnonymizeValue
anonVars == <<fieldName, value, result>>

NoHandles == [remoteDB |-> "", localDB |-> ""]

\* the table lists of cfg.Migration: no allow-list, an allow-list in an
\* order that is not the catalog's, and an allow-list that names a table
\* no catalog has
TableLists ==
    {[Tables |-> <<>>, ExcludeTables |-> {}],
     [Tables |-> <<>>, ExcludeTables |-> {"orders"}],
     [Tables |-> <<"users", "orders">>, ExcludeTables |-> {}],
     [Tables |-> <<"users", "orders">>, ExcludeTables |-> {"orders"}],
     [Tables |-> <<"ghost", "users">>, ExcludeTables |-> {}]}

\* the names a table list can hold: the tables of the databases and
\* "ghost", a name no database has a table for (it never has rows)
Named == TableNames \cup {"ghost"}

\* the table list the runs with anonymization are given
AnonymizedList == [Tables |-> <<"users", "orders">>, ExcludeTables |-> {}]

\* the table list the runs of push are given
PushList == [Tables |-> <<>>, ExcludeTables |-> {}]

\* cfg.Migration as Load accepts it: Validate rejects BatchSize <= 0
Configs ==
    {[Tables |-> l.Tables, ExcludeTables |-> l.ExcludeTables,
      TruncateTables |-> tr, BatchSize |-> b, Anonymize |-> an] :
        l \in TableLists, tr \in BOOLEAN, b \in 1..MaxBatch,
        an \in BOOLEAN}
    \ {cfg \in [Tables : {l.Tables : l \in TableLists},
                ExcludeTables : {l.ExcludeTables : l \in TableLists},
                TruncateTables : BOOLEAN, BatchSize : 1..MaxBatch,
                Anonymize : {TRUE}] :
            [Tables |-> cfg.Tables, ExcludeTables |-> cfg.ExcludeTables]
                # AnonymizedList}

\* the destination before the run: with truncation configured, what an
\* earlier interrupted run left (the first rows of the source, committed)
\* and rows the source does not have; otherwise rows of the destination
LocalInit(cfg, rows, ns) ==
    IF cfg.TruncateTables
    THEN SubSeq(rows, 1, min(ns, Len(rows))) \o LocalRows(ns)
    ELSE LocalRows(ns)

\* the Config that Load unmarshalled and accepted, cfg.Migration being cfg
Accepted(cfg) ==
    [Remote |-> [Host |-> "db.example", Database |-> "app", User |-> "app"],
     Local |-> [Host |-> "localhost", Database |-> "local_db"],
     Migration |-> cfg]

\* VerifySchema has not returned an error; no report was generated
NoSchemaErr == [kind |-> "", missing |-> 0]
NoReport == [totalTables |-> 0, matchedTables |-> 0, mismatched |-> 0,
             errors |-> 0, totalRemoteRows |-> 0, totalLocalRows |-> 0]

\* the docker client of a command after EnsureRunning has returned nil on
\* a container that was running
DockerIdle ==
    /\ autoStart = TRUE
    /\ composeFound = TRUE
    /\ running = TRUE
    /\ ready = TRUE
    /\ isRunning = "running"
    /\ starts = 0
    /\ elapsed = 0
    /\ lastPoll = "none"

Init ==
    /\ cmd \in {"schema", "pull", "push"}
    /\ dryRun \in BOOLEAN
    /\ (cmd # "schema" => ~dryRun)
    /\ config \in Configs
    /\ (cmd = "push" =>
          /\ config.Tables = PushList.Tables
          /\ config.ExcludeTables = PushList.ExcludeTables
          /\ ~config.Anonymize)
    /\ (cmd = "schema" => config = [Tables |-> <<>>, ExcludeTables |-> {},
                                    TruncateTables |-> TRUE, BatchSize |-> 1,
                                    Anonymize |-> FALSE])
    /\ \E no \in 0..MaxRows, nu \in 0..MaxRowsUsers, ns \in 0..MaxStale :
          LET remote == [t \in Named |->
                           IF t \in TableNames
                           THEN RemoteRows(IF t = "orders" THEN no ELSE nu)
                           ELSE <<>>]
          IN  db = [d \in Databases |->
                      IF d = "remote"
                      THEN remote
                      ELSE [t \in Named |->
                              IF t \in TableNames
                              THEN LocalInit(config, remote[t], ns)
                              ELSE <<>>]]
    /\ schemaApplied = [d \in Databases |-> FALSE]
    /\ m = NoHandles
    /\ pc = "start"
    /\ tables = <<>>
    /\ idx = 0
    /\ results = <<>>
    /\ runErr = ""
    /\ cursor = 0
    /\ cursorErr = FALSE
    /\ tx = "none"
    /\ txRows = <<>>
    /\ rowCount = 0
    /\ batchCount = 0
    /\ values = 0
    /\ log = <<>>
    /\ cancelled = FALSE
    /\ columns = <<>>
    /\ selectQuery = <<>>
    /\ insertQuery = <<>>
    /\ cells = <<>>
    /\ fieldName = <<>>
    /\ value = Null
    /\ result = Null
    /\ catalog = [d \in Databases |-> TableNames]
    /\ loaded = Accepted(config)
    /\ schemaErr = NoSchemaErr
    /\ report = NoReport
    /\ DockerIdle

\* one call to database d about table t; n is the number of rows the
\* call inserts, commits or discards
Call(d, op, t, ok, n) ==
    [db |-> d, op |-> op, table |-> t, ok |-> ok, n |-> n]

\* setupContext: an interrupt or SIGTERM cancels the context every call
\* of the command is bound to
Cancel ==
    /\ pc \notin {"done", "fatal"}
    /\ ~cancelled
    /\ cancelled' = TRUE
    /\ UNCHANGED <<dockerVars, inputVars, verifyVars, anonVars, stmtVars, db,
                   schemaApplied, m, pc, tables, idx, results, runErr,
                   copyVars, log>>

\* the outcomes of a call bound to the context: a call made after the
\* cancellation returns the context's error
Outcomes == IF cancelled THEN {FALSE} ELSE BOOLEAN

\* the tables pg_tables lists for the public schema of database d
Catalog(d) == catalog[d]

\* database d has the table t
Exists(d, t) == t \in Catalog(d)

\* the outcomes of a statement on table t of database d: it fails when d
\* does not have the table
OutcomesOn(d, t) == IF Exists(d, t) THEN Outcomes ELSE {FALSE}

\* ------------------------------------------------------- command prelude
\* the database cfg.X the versioned schema migrations are applied to:
\* pushCmd passes &cfg.Remote, newPullCmd passes &cfg.Local
MigrationTarget(c) == IF c = "push" THEN "remote" ELSE "local"

\* VersionManager.ApplyMigrations: atlas migrate apply against the target;
\* the caller ends the program (logger.Fatal) when it fails
ApplyMigrations ==
    /\ pc = "start"
    /\ cmd \in {"pull", "push"}
    /\ \E ok \in Outcomes, applied \in BOOLEAN :
          /\ (ok => applied)
          /\ schemaApplied' =
                [schemaApplied EXCEPT ![MigrationTarget(cmd)] = applied]
          /\ pc' = IF ok THEN "connect" ELSE "fatal"
          /\ runErr' = IF ok THEN "" ELSE "migration apply failed"
    /\ UNCHANGED <<dockerVars, inputVars, verifyVars, anonVars, cancelled,
                   stmtVars, db, m, tables, idx, results, copyVars, log>>

\* schemaCmd up to connectDatabases
SchemaCmdStart ==
    /\ pc = "start"
    /\ cmd = "schema"
    /\ pc' = "connect"
    /\ UNCHANGED <<dockerVars, inputVars, verifyVars, anonVars, cancelled,
                   stmtVars, db, schemaApplied, m, tables, idx, results,
                   runErr, copyVars, log>>

\* connectDatabases returns <<remote connection, local connection>>
connectDatabases == <<"remote", "local">>

\* the handles a command passes to NewDataMigrator(remoteDB, localDB):
\* newPullCmd binds  remoteDB, localDB := connectDatabases(ctx)  and passes
\* (remoteDB, localDB); pushCmd binds  localDB, remoteDB :=
\* connectDatabases(ctx)  and passes (localDB, remoteDB)
NewDataMigrator(c) ==
    IF c = "push"
    THEN LET localDB == connectDatabases[1]
             remoteDB == connectDatabases[2]
         IN  [remoteDB |-> localDB, localDB |-> remoteDB]
    ELSE LET remoteDB == connectDatabases[1]
             localDB == connectDatabases[2]
         IN  [remoteDB |-> remoteDB, localDB |-> localDB]

\* connectDatabases (a failed ping ends the program) and the construction
\* of the migrator that follows it
Connect ==
    /\ pc = "connect"
    /\ \E ok \in Outcomes :
          IF ~ok
          THEN /\ pc' = "fatal"
               /\ runErr' = "failed to ping database"
               /\ m' = m
          ELSE /\ runErr' = runErr
               /\ IF cmd = "schema"
                  THEN pc' = "atlas" /\ m' = m
                  ELSE pc' = "resolve" /\ m' = NewDataMigrator(cmd)
    /\ UNCHANGED <<dockerVars, inputVars, verifyVars, anonVars, cancelled,
                   stmtVars, db, schemaApplied, tables, idx, results,
                   copyVars, log>>

\* ------------------------------------------------------- SchemaMigrator
\* the flag applyWithAtlasDocker passes to atlas schema apply
AtlasApplies(dry) == ~dry

\* SchemaMigrator.Migrate -> applyWithAtlas -> applyWithAtlasDocker: atlas
\* schema apply --url local --to remote, with --dry-run or --auto-approve;
\* on failure applyWithAtlas falls back to applyWithPgDump
applyWithAtlasDocker ==
    /\ pc = "atlas"
    /\ \E ok \in Outcomes, applied \in BOOLEAN :
          /\ (applied => AtlasApplies(dryRun))
          /\ (ok /\ AtlasApplies(dryRun) => applied)
          /\ schemaApplied' = [schemaApplied EXCEPT !["local"] = @ \/ applied]
          /\ pc' = IF ok THEN "done" ELSE "pgdump"
    /\ UNCHANGED <<dockerVars, inputVars, verifyVars, anonVars, cancelled,
                   stmtVars, db, m, tables, idx, results, runErr, copyVars,
                   log>>

\* whether the pg_dump | psql pipeline of applyWithPgDump writes to the
\* local database: applyWithPgDump(ctx) does not take the dry-run flag
PgDumpApplies(dry) == TRUE

\* SchemaMigrator.applyWithPgDump: pg_dump --schema-only of the remote
\* piped into psql on the local database
applyWithPgDump ==
    /\ pc = "pgdump"
    /\ \E ok \in Outcomes, applied \in BOOLEAN :
          /\ (applied => PgDumpApplies(dryRun))
          /\ (ok /\ PgDumpApplies(dryRun) => applied)
          /\ schemaApplied' = [schemaApplied EXCEPT !["local"] = @ \/ applied]
          /\ pc' = IF ok THEN "done" ELSE "fatal"
          /\ runErr' = IF ok THEN "" ELSE "atlas migration failed"
    /\ UNCHANGED <<dockerVars, inputVars, verifyVars, anonVars, cancelled,
                   stmtVars, db, m, tables, idx, results, copyVars, log>>


\* --------------------------------------------------------- DataMigrator
\* mutant of Discover: the rows come in the reverse of the tablename order
DiscoverDescending(d, exclude) ==
    [i \in 1..Len(SelectSeq(TableOrder, LAMBDA t : t \notin exclude)) |->
        SelectSeq(TableOrder, LAMBDA t : t \notin exclude)[
            Len(SelectSeq(TableOrder, LAMBDA t : t \notin exclude)) + 1 - i]]

\* the public tables of database d in ORDER BY tablename order, without
\* the excluded ones (the loop over rows of getTablesToMigrate)
Discover(d, exclude) ==
    SelectSeq(TableOrder, LAMBDA t : t \in Catalog(d) /\ t \notin exclude)

\* mutant of AllowList: the excluded tables are taken out of the list
AllowListWithoutExcluded(cfg) ==
    SelectSeq(cfg.Tables, LAMBDA t : t \notin cfg.ExcludeTables)

\* getTablesToMigrate lines 258-260: return m.config.Tables, nil
AllowList(cfg) == cfg.Tables

\* mutant of AfterResolve: the error of getTablesToMigrate is dropped
AfterResolveIgnoresError(ok) == "loop"

\* MigrateAll lines 229-232: an error of getTablesToMigrate is returned, and
\* the command ends the program with it; otherwise the loop starts
AfterResolve(ok) == IF ok THEN "loop" ELSE "fatal"

\* MigrateAll, lines 229-232: getTablesToMigrate
getTablesToMigrate ==
    /\ pc = "resolve"
    /\ IF Len(config.Tables) > 0
       THEN /\ tables' = AllowList(config)
            /\ pc' = "loop"
            /\ idx' = 1
            /\ UNCHANGED <<runErr, log>>
       ELSE \E ok \in Outcomes :
               /\ log' = Append(log, Call(m.remoteDB, "listTables", "", ok, 0))
               /\ pc' = AfterResolve(ok)
               /\ IF ok
                  THEN /\ tables' = Discover(m.remoteDB, config.ExcludeTables)
                       /\ idx' = 1
                       /\ runErr' = runErr
                  ELSE /\ runErr' = "failed to get tables"
                       /\ UNCHANGED <<tables, idx>>
    /\ UNCHANGED <<dockerVars, inputVars, verifyVars, anonVars, cancelled,
                   stmtVars, db, schemaApplied, m, results, copyVars>>

\* mutant of FailResult: the rows counted before the failure are reported
FailResultCountsRows(t, err) ==
    [Table |-> t, RowsMigrated |-> rowCount, Success |-> FALSE, Error |-> err]

\* MigrateResult of a failed copy: the zero result with Error set
FailResult(t, err) ==
    [Table |-> t, RowsMigrated |-> 0, Success |-> FALSE, Error |-> err]

\* mutant of SuccessResult: the count of the last batch is reported
SuccessResultBatchCount(t, rc) ==
    [Table |-> t, RowsMigrated |-> batchCount, Success |-> TRUE, Error |-> ""]

\* MigrateResult of a successful copy (lines 417-419)
SuccessResult(t, rc) ==
    [Table |-> t, RowsMigrated |-> rc, Success |-> TRUE, Error |-> ""]

\* mutant of Recorded: only successful results are appended
RecordedSuccessOnly(rs, res) == IF res.Success THEN Append(rs, res) ELSE rs

\* MigrateAll line 239: results = append(results, result)
Recorded(rs, res) == Append(rs, res)

\* migrateTable returns res to the loop of MigrateAll, which appends it and
\* goes on to the next table whatever the result is
Return(res) ==
    /\ results' = Recorded(results, res)
    /\ idx' = idx + 1
    /\ pc' = "loop"

\* mutant of FirstStep: the truncate flag is not consulted
FirstStepSkipsTruncate(cfg) == "columns"

\* the first call of migrateTable (line 304)
FirstStep(cfg) == IF cfg.TruncateTables THEN "truncate" ELSE "columns"

\* MigrateAll: the loop takes the next table and enters migrateTable
MigrateTableBegin ==
    /\ pc = "loop"
    /\ idx <= Len(tables)
    /\ pc' = FirstStep(config)
    /\ cursor' = 0
    /\ cursorErr' = FALSE
    /\ tx' = "none"
    /\ txRows' = <<>>
    /\ rowCount' = 0
    /\ batchCount' = 0
    /\ values' = 0
    /\ columns' = <<>>
    /\ selectQuery' = <<>>
    /\ insertQuery' = <<>>
    /\ cells' = <<>>
    /\ UNCHANGED <<dockerVars, inputVars, verifyVars, anonVars, cancelled, db,
                   schemaApplied, m, tables, idx, results, runErr, log>>

\* MigrateAll returns the results after the last table
MigrateAllReturn ==
    /\ pc = "loop"
    /\ idx > Len(tables)
    /\ pc' = "done"
    /\ UNCHANGED <<dockerVars, inputVars, verifyVars, anonVars, cancelled,
                   stmtVars, db, schemaApplied, m, tables, idx, results,
                   runErr, copyVars, log>>

\* the table migrateTable is working on
Table == tables[idx]

\* the columns of the tables in ordinal position (users: id, email;
\* orders: id and the edge column user_id)
ColumnsOf(t) ==
    IF t = "users"
    THEN <<<<"i", "d">>, <<"e", "m", "a", "i", "l">>>>
    ELSE <<<<"i", "d">>, <<"u", "s", "e", "r", "_", "i", "d">>>>

\* the rows of information_schema.columns for table t of database d in
\* ORDER BY ordinal_position: none when d has no such table
CatalogColumns(d, t) == IF Exists(d, t) THEN ColumnsOf(t) ELSE <<>>

\* the column list of selectQuery: strings.Join(columns, ", ")
SelectColumns(cols) == cols

\* mutant of InsertColumns: the INSERT lists the columns in reverse
InsertColumnsReversed(cols) == [i \in 1..Len(cols) |-> cols[Len(cols) + 1 - i]]

\* the column list of insertQuery: strings.Join(columns, ", "), with the
\* placeholders $1..$n in the same order
InsertColumns(cols) == cols

\* the value row k of table t holds in column col
CellValue(t, col, k) ==
    IF col = <<"i", "d">> THEN Value("int", Decimal(k))
    ELSE IF col = <<"e", "m", "a", "i", "l">>
    THEN Value("string", <<"u">> \o Decimal(k) \o <<"@", "x", ".", "i", "o">>)
    ELSE Value("int", <<"1">>)

\* rows.Scan(valuePtrs...): values[i] is the i-th column of the SELECT
Scanned(selected, t, k) ==
    [i \in 1..Len(selected) |-> CellValue(t, selected[i], k)]

\* lines 371-375: values[i] = AnonymizeValue(columns[i], values[i]), each
\* call with its own draw rs[i]
Anonymized(cols, vals, rs) ==
    [i \in 1..Len(vals) |-> AnonymizeValue(cols[i], vals[i], rs[i])]

\* mutant of Truncated: the statement leaves the rows where they are
TruncatedNothing(dbs, d, t) == dbs

\* mutant of Truncated: the statement is run on both databases
TruncatedOnBothSides(dbs, d, t) ==
    [e \in DOMAIN dbs |->
        [u \in DOMAIN dbs[e] |->
            IF u \in CascadeSet(t) THEN <<>> ELSE dbs[e][u]]]

\* the committed state after TRUNCATE TABLE t CASCADE on database d
Truncated(dbs, d, t) ==
    [dbs EXCEPT ![d] = [u \in DOMAIN dbs[d] |->
                          IF u \in CascadeSet(t) THEN <<>> ELSE dbs[d][u]]]

\* migrateTable lines 304-309: truncateTable on the destination
truncateTable ==
    /\ pc = "truncate"
    /\ \E ok \in OutcomesOn(m.localDB, Table) :
          /\ log' = Append(log, Call(m.localDB, "truncate", Table, ok, 0))
          /\ IF ok
             THEN /\ db' = Truncated(db, m.localDB, Table)
                  /\ pc' = "columns"
                  /\ UNCHANGED <<results, idx>>
             ELSE /\ db' = db
                  /\ Return(FailResult(Table, "failed to truncate table"))
    /\ UNCHANGED <<dockerVars, inputVars, verifyVars, anonVars, cancelled,
                   stmtVars, schemaApplied, m, tables, runErr, copyVars>>

\* migrateTable lines 312-316: getTableColumns on the source catalog
getTableColumns ==
    /\ pc = "columns"
    /\ \E ok \in Outcomes :
          /\ log' = Append(log, Call(m.remoteDB, "listColumns", Table, ok, 0))
          /\ IF ok
             THEN /\ columns' = CatalogColumns(m.remoteDB, Table)
                  /\ pc' = "query"
                  /\ UNCHANGED <<results, idx>>
             ELSE /\ columns' = columns
                  /\ Return(FailResult(Table, "failed to get columns"))
    /\ UNCHANGED <<dockerVars, inputVars, verifyVars, anonVars, cancelled,
                   selectQuery, insertQuery, cells, db, schemaApplied, m,
                   tables, runErr, copyVars>>

\* migrateTable lines 319-325: the SELECT that opens the source cursor
QuerySource ==
    /\ pc = "query"
    /\ selectQuery' = SelectColumns(columns)
    /\ \E ok \in OutcomesOn(m.remoteDB, Table) :
          /\ log' = Append(log, Call(m.remoteDB, "select", Table, ok, 0))
          /\ IF ok
             THEN pc' = "prepare" /\ UNCHANGED <<results, idx>>
             ELSE Return(FailResult(Table, "failed to query remote table"))
    /\ UNCHANGED <<dockerVars, inputVars, verifyVars, anonVars, cancelled,
                   columns, insertQuery, cells, db, schemaApplied, m, tables,
                   runErr, copyVars>>

\* migrateTable lines 339-344: the INSERT is prepared on the destination
PrepareInsert ==
    /\ pc = "prepare"
    /\ insertQuery' = InsertColumns(columns)
    /\ \E ok \in OutcomesOn(m.localDB, Table) :
          /\ log' = Append(log, Call(m.localDB, "prepare", Table, ok, 0))
          /\ IF ok
             THEN pc' = "begin" /\ UNCHANGED <<results, idx>>
             ELSE Return(FailResult(Table,
                                    "failed to prepare insert statement"))
    /\ UNCHANGED <<dockerVars, inputVars, verifyVars, anonVars, cancelled,
                   columns, selectQuery, cells, db, schemaApplied, m, tables,
                   runErr, copyVars>>

\* migrateTable lines 347-354: the first destination transaction
BeginTx ==
    /\ pc = "begin"
    /\ \E ok \in Outcomes :
          /\ log' = Append(log, Call(m.localDB, "begin", Table, ok, 0))
          /\ IF ok
             THEN /\ tx' = "open"
                  /\ pc' = "next"
                  /\ UNCHANGED <<results, idx>>
             ELSE /\ tx' = tx
                  /\ Return(FailResult(Table, "failed to begin transaction"))
    /\ UNCHANGED <<dockerVars, inputVars, verifyVars, anonVars, cancelled,
                   stmtVars, db, schemaApplied, m, tables, runErr, cursor,
                   cursorErr, txRows, rowCount, batchCount, values>>


\* the rows of the source table, in the order the cursor yields them
SourceRows == db[m.remoteDB][Table]

\* the row the cursor is positioned on after c calls of rows.Next
Fetch(rows, c) == rows[c]

\* migrateTable line 356: rows.Next() moves the source cursor to the next
\* row, or reports exhaustion, or stops on an error that rows.Err() keeps
RowsNext ==
    /\ pc = "next"
    /\ \E ok \in BOOLEAN :
          /\ log' = Append(log, Call(m.remoteDB, "next", Table, ok, 0))
          /\ IF ok /\ cursor < Len(SourceRows)
             THEN /\ cursor' = cursor + 1
                  /\ cursorErr' = cursorErr
                  /\ pc' = "scan"
             ELSE /\ cursor' = cursor
                  /\ cursorErr' = ~ok
                  /\ pc' = "finalCommit"
    /\ UNCHANGED <<dockerVars, inputVars, verifyVars, anonVars, cancelled,
                   stmtVars, db, schemaApplied, m, tables, idx, results,
                   runErr, tx, txRows, rowCount, batchCount, values>>

\* mutant of Rollback: the failure path returns without tx.Rollback()
RollbackOmitted(d, t, n) == [calls |-> <<>>, tx |-> "open"]

\* tx.Rollback() at lines 365 and 380: the call issued to the destination
\* and the state of the transaction after it
Rollback(d, t, n) ==
    [calls |-> <<Call(d, "rollback", t, TRUE, n)>>, tx |-> "none"]

\* tx.Rollback(): the rows of the open transaction are discarded
RolledBack(rows) == <<>>

\* mutant of AfterRollback: the rollback also empties the table
AfterRollbackTruncates(dbs, d, t) == Truncated(dbs, d, t)

\* tx.Rollback(): the committed rows of the destination stay as they are
AfterRollback(dbs, d, t) == dbs

\* migrateTable lines 358-368: rows.Scan into values; a failure rolls the
\* open transaction back and returns
ScanRow ==
    /\ pc = "scan"
    /\ \E ok \in BOOLEAN, rs \in [1..Len(columns) -> Draws] :
          IF ok
          THEN /\ values' = Fetch(SourceRows, cursor)
               /\ cells' =
                     LET scanned == Scanned(selectQuery, Table,
                                            Fetch(SourceRows, cursor))
                     IN  IF config.Anonymize
                         THEN Anonymized(columns, scanned, rs)
                         ELSE scanned
               /\ log' = Append(log, Call(m.remoteDB, "scan", Table, TRUE, 0))
               /\ pc' = "insert"
               /\ UNCHANGED <<db, results, idx, tx, txRows>>
          ELSE /\ values' = values
               /\ cells' = cells
               /\ log' = log \o
                     <<Call(m.remoteDB, "scan", Table, FALSE, 0)>> \o
                     Rollback(m.localDB, Table, Len(txRows)).calls
               /\ txRows' = RolledBack(txRows)
               /\ db' = AfterRollback(db, m.localDB, Table)
               /\ tx' = Rollback(m.localDB, Table, Len(txRows)).tx
               /\ Return(FailResult(Table, "failed to scan row"))
    /\ UNCHANGED <<dockerVars, inputVars, verifyVars, anonVars, cancelled,
                   columns, selectQuery, insertQuery, schemaApplied, m,
                   tables, runErr, cursor, cursorErr, rowCount, batchCount>>

\* mutant of Inserted: the row is put in front of the earlier ones
InsertedFirst(rows, v) == <<v>> \o rows

\* the rows of the open transaction after the INSERT of v
Inserted(rows, v) == Append(rows, v)

\* mutant of BatchFull: the batch is committed one row late
BatchFullStrict(bc, cfg) == bc > cfg.BatchSize

\* migrateTable line 388: the batch is complete
BatchFull(bc, cfg) == bc >= cfg.BatchSize

\* migrateTable lines 378-388: the insert inside the open transaction; a
\* failure rolls the open transaction back and returns
InsertRow ==
    /\ pc = "insert"
    /\ \E ok \in Outcomes :
          IF ok
          THEN /\ log' = Append(log, Call(m.localDB, "insert", Table, TRUE, 1))
               /\ txRows' = Inserted(txRows, values)
               /\ rowCount' = rowCount + 1
               /\ batchCount' = batchCount + 1
               /\ pc' = IF BatchFull(batchCount + 1, config)
                        THEN "commit" ELSE "next"
               /\ UNCHANGED <<db, results, idx, tx>>
          ELSE /\ log' = log \o
                     <<Call(m.localDB, "insert", Table, FALSE, 0)>> \o
                     Rollback(m.localDB, Table, Len(txRows)).calls
               /\ txRows' = RolledBack(txRows)
               /\ db' = AfterRollback(db, m.localDB, Table)
               /\ tx' = Rollback(m.localDB, Table, Len(txRows)).tx
               /\ UNCHANGED <<rowCount, batchCount>>
               /\ Return(FailResult(Table, "failed to insert row"))
    /\ UNCHANGED <<dockerVars, inputVars, verifyVars, anonVars, cancelled,
                   stmtVars, schemaApplied, m, tables, runErr, cursor,
                   cursorErr, values>>

\* the committed state after tx.Commit() of the rows inserted in the
\* transaction on table t of database d
Committed(dbs, d, t, rows) == [dbs EXCEPT ![d][t] = @ \o rows]

\* migrateTable lines 389-392: the commit of a complete batch; a failed
\* commit ends the transaction without its rows
CommitBatch ==
    /\ pc = "commit"
    /\ \E ok \in Outcomes :
          /\ log' = Append(log,
                       Call(m.localDB, "commit", Table, ok, Len(txRows)))
          /\ tx' = "none"
          /\ txRows' = <<>>
          /\ IF ok
             THEN /\ db' = Committed(db, m.localDB, Table, txRows)
                  /\ pc' = "beginNew"
                  /\ UNCHANGED <<results, idx>>
             ELSE /\ db' = db
                  /\ Return(FailResult(Table, "failed to commit batch"))
    /\ UNCHANGED <<dockerVars, inputVars, verifyVars, anonVars, cancelled,
                   stmtVars, schemaApplied, m, tables, runErr, cursor,
                   cursorErr, rowCount, batchCount, values>>

\* migrateTable lines 395-402: the transaction of the next batch
BeginNewTx ==
    /\ pc = "beginNew"
    /\ \E ok \in Outcomes :
          /\ log' = Append(log, Call(m.localDB, "begin", Table, ok, 0))
          /\ IF ok
             THEN /\ tx' = "open"
                  /\ batchCount' = 0
                  /\ pc' = "next"
                  /\ UNCHANGED <<results, idx>>
             ELSE /\ UNCHANGED <<tx, batchCount>>
                  /\ Return(FailResult(Table,
                                       "failed to begin new transaction"))
    /\ UNCHANGED <<dockerVars, inputVars, verifyVars, anonVars, cancelled,
                   stmtVars, db, schemaApplied, m, tables, runErr, cursor,
                   cursorErr, txRows, rowCount, values>>

\* migrateTable lines 406-419: after the loop the open transaction is
\* committed, then rows.Err() is examined, then the result is a success
FinalCommit ==
    /\ pc = "finalCommit"
    /\ \E ok \in Outcomes :
          /\ log' = Append(log,
                       Call(m.localDB, "commit", Table, ok, Len(txRows)))
          /\ tx' = "none"
          /\ txRows' = <<>>
          /\ IF ~ok
             THEN /\ db' = db
                  /\ Return(FailResult(Table, "failed to commit final batch"))
             ELSE /\ db' = Committed(db, m.localDB, Table, txRows)
                  /\ IF cursorErr
                     THEN Return(FailResult(Table,
                                            "error during row iteration"))
                     ELSE Return(SuccessResult(Table, rowCount))
    /\ UNCHANGED <<dockerVars, inputVars, verifyVars, anonVars, cancelled,
                   stmtVars, schemaApplied, m, tables, runErr, cursor,
                   cursorErr, rowCount, batchCount, values>>

Next ==
    \/ ApplyMigrations
    \/ SchemaCmdStart
    \/ Connect
    \/ applyWithAtlasDocker
    \/ applyWithPgDump
    \/ getTablesToMigrate
    \/ MigrateTableBegin
    \/ MigrateAllReturn
    \/ truncateTable
    \/ getTableColumns
    \/ QuerySource
    \/ PrepareInsert
    \/ BeginTx
    \/ RowsNext
    \/ ScanRow
    \/ InsertRow
    \/ CommitBatch
    \/ BeginNewTx
    \/ FinalCommit
    \/ Cancel

Spec == Init /\ [][Next]_vars

\* ------------------------------------------- AnonymizeValue on its own
\* the field names AnonymizeValue is called with: names of every rule, in
\* several cases, names that hold a pattern inside another word, and names
\* no pattern occurs in
FieldNames ==
    {<<"e", "m", "a", "i", "l">>,
     <<"E", "m", "a", "i", "l">>,
     <<"e", "m", "a", "i", "l", "_", "a", "d", "d", "r", "e", "s", "s">>,
     <<"P", "h", "o", "n", "e", "N", "a", "m", "e">>,
     <<"U", "S", "E", "R", "_", "P", "H", "O", "N", "E">>,
     <<"p", "a", "s", "s", "w", "o", "r", "d">>,
     <<"f", "u", "l", "l", "_", "n", "a", "m", "e">>,
     <<"s", "s", "n">>,
     <<"a", "c", "c", "o", "u", "n", "t">>,
     <<"s", "t", "r", "e", "e", "t">>,
     <<"i", "d">>,
     <<"S", "t", "a", "t", "u", "s">>,
     <<"c", "r", "e", "a", "t", "e", "d", "_", "a", "t">>,
     <<"q", "t", "y">>}

\* the values AnonymizeValue is called with: nil, values of types other than
\* string (int64, float64, time.Time, []byte, bool) and strings
Values ==
    {Null,
     Value("int64", <<"4", "2">>),
     Value("float64", <<"1", ".", "5">>),
     Value("time", <<"2", "0", "2", "4", "-", "0", "1", "-", "0", "1">>),
     Value("bytes", <<"a", "@", "b", ".", "c">>),
     Value("bool", <<"t">>),
     Value("string", <<>>),
     Value("string", <<"a", "@", "b", ".", "c">>),
     Value("string",
           <<"j", "o", "h", "n", ".", "d", "o", "e", "@", "x", ".", "i", "o">>),
     Value("string", <<"C3", "A9", "@", "x", ".", "i", "o">>),
     Value("string", <<"a", "@", "b", "@", "c">>),
     Value("string", <<"@", "x", ".", "i", "o">>),
     Value("string",
           <<"+", "4", "4", " ", "2", "0", " ", "7", "9", "4", "6", " ", "0",
             "9", "5", "8">>),
     Value("string", <<"5", "5", "5", "-", "1", "2", "3", "4">>),
     Value("string", <<"A", "n", "n", " ", "L", "e", "e">>),
     Value("string", <<"4", "2">>)}

\* a program that only calls AnonymizeValue: no command runs
InitAnon ==
    /\ cmd = "pull"
    /\ dryRun = FALSE
    /\ config = [Tables |-> <<>>, ExcludeTables |-> {},
                 TruncateTables |-> FALSE, BatchSize |-> 1,
                 Anonymize |-> TRUE]
    /\ db = [d \in Databases |-> [t \in Named |-> <<>>]]
    /\ schemaApplied = [d \in Databases |-> FALSE]
    /\ m = NoHandles
    /\ pc = "anonymize"
    /\ tables = <<>>
    /\ idx = 0
    /\ results = <<>>
    /\ runErr = ""
    /\ cursor = 0
    /\ cursorErr = FALSE
    /\ tx = "none"
    /\ txRows = <<>>
    /\ rowCount = 0
    /\ batchCount = 0
    /\ values = 0
    /\ log = <<>>
    /\ cancelled = FALSE
    /\ columns = <<>>
    /\ selectQuery = <<>>
    /\ insertQuery = <<>>
    /\ cells = <<>>
    /\ fieldName \in FieldNames
    /\ value \in Values
    /\ result = Null
    /\ catalog = [d \in Databases |-> TableNames]
    /\ loaded = Accepted(config)
    /\ schemaErr = NoSchemaErr
    /\ report = NoReport
    /\ DockerIdle

\* one call of AnonymizeValue(fieldName, value); r is what randomInt draws
AnonymizeValueCall ==
    /\ pc = "anonymize"
    /\ \E r \in Draws : result' = AnonymizeValue(fieldName, value, r)
    /\ pc' = "anonymized"
    /\ UNCHANGED <<dockerVars, inputVars, verifyVars, stmtVars, fieldName,
                   value, cancelled, db, schemaApplied, m, tables, idx,
                   results, runErr, copyVars, log>>

NextAnon == AnonymizeValueCall

SpecAnon == InitAnon /\ [][NextAnon]_vars

\* ------------------------------------------------------ verify command
\* the table lists of cfg.Migration of a verify run: none, the two tables,
\* and a list with a table no database has
VerifyLists == {<<>>, <<"users", "orders">>, <<"orders", "ghost">>}

\* the public tables of the two databases of a verify run: the same on
\* both sides, a table missing on one side, a table only the local has
VerifyCatalogs ==
    {[remote |-> r, local |-> l] :
        r \in {TableNames, {"users"}},
        l \in {TableNames, {"users"}, {"users", "ghost"}}}

\* the outcomes GenerateReport is given when it is called on its own
GivenResults ==
    {[Table |-> "users", RemoteRows |-> 2, LocalRows |-> 2, Match |-> TRUE,
      RowDiff |-> 0, Error |-> ""],
     [Table |-> "orders", RemoteRows |-> 3, LocalRows |-> 1, Match |-> FALSE,
      RowDiff |-> 2, Error |-> ""],
     [Table |-> "orders", RemoteRows |-> 2, LocalRows |-> 0, Match |-> FALSE,
      RowDiff |-> 0, Error |-> "failed to get local row count"],
     [Table |-> "ghost", RemoteRows |-> 1, LocalRows |-> 1, Match |-> TRUE,
      RowDiff |-> 0, Error |-> "failed to get remote row count"]}

\* the state after NewVerifier(remoteDB, localDB) in verifyCmd, or at a
\* call of GenerateReport with given outcomes
InitVerify ==
    /\ cmd = "verify"
    /\ dryRun = FALSE
    /\ \E l \in VerifyLists :
          config = [Tables |-> l, ExcludeTables |-> {},
                    TruncateTables |-> FALSE, BatchSize |-> 1,
                    Anonymize |-> FALSE]
    /\ catalog \in VerifyCatalogs
    /\ \E no \in 0..MaxRows, nu \in 0..MaxRowsUsers, ns \in 0..MaxStale,
          copied \in BOOLEAN :
          LET remote == [t \in Named |->
                           IF t = "orders" THEN RemoteRows(no)
                           ELSE IF t = "users" THEN RemoteRows(nu)
                           ELSE <<>>]
          IN  /\ (copied => ns = 0)
              /\ db = [d \in Databases |->
                         IF d = "remote" \/ copied
                         THEN remote
                         ELSE [t \in Named |-> LocalRows(ns)]]
    /\ schemaApplied = [d \in Databases |-> FALSE]
    /\ m = [remoteDB |-> connectDatabases[1], localDB |-> connectDatabases[2]]
    /\ tables = <<>>
    /\ idx = 0
    /\ \/ pc = "verifySchema" /\ results = <<>>
       \/ /\ pc = "report"
          /\ config.Tables = <<>>
          /\ catalog = [remote |-> TableNames, local |-> TableNames]
          /\ db = [d \in Databases |-> [t \in Named |-> <<>>]]
          /\ \E a \in GivenResults, b \in GivenResults :
                results \in {<<a>>, <<a, b>>}
    /\ runErr = ""
    /\ cursor = 0
    /\ cursorErr = FALSE
    /\ tx = "none"
    /\ txRows = <<>>
    /\ rowCount = 0
    /\ batchCount = 0
    /\ values = 0
    /\ log = <<>>
    /\ cancelled = FALSE
    /\ columns = <<>>
    /\ selectQuery = <<>>
    /\ insertQuery = <<>>
    /\ cells = <<>>
    /\ fieldName = <<>>
    /\ value = Null
    /\ result = Null
    /\ loaded = Accepted(config)
    /\ schemaErr = NoSchemaErr
    /\ report = NoReport
    /\ DockerIdle

\* the variables of the pipeline the verify command does not use
unusedByVerify == <<schemaApplied, copyVars, stmtVars, anonVars>>

\* VerifySchema lines 133-139: the remote tables the local does not have
MissingInLocal(remoteTables, localTables) == remoteTables \ localTables

\* mutant of SchemaError: tables only the local has count as missing too
SchemaErrorEitherSide(remoteTables, localTables) ==
    IF remoteTables # localTables
    THEN [kind |-> "schema mismatch",
          missing |-> Cardinality((remoteTables \ localTables)
                                     \cup (localTables \ remoteTables))]
    ELSE NoSchemaErr

\* VerifySchema lines 141-150: the error for the two table lists
SchemaError(remoteTables, localTables) ==
    IF Cardinality(MissingInLocal(remoteTables, localTables)) > 0
    THEN [kind |-> "schema mismatch",
          missing |-> Cardinality(MissingInLocal(remoteTables, localTables))]
    ELSE NoSchemaErr

\* Verifier.VerifySchema: getTables on the remote, then on the local, then
\* the comparison; verifyCmd logs the error and goes on
VerifySchema ==
    /\ pc = "verifySchema"
    /\ \E okRemote \in Outcomes, okLocal \in Outcomes :
          /\ log' = log \o
                <<Call(m.remoteDB, "listTables", "", okRemote, 0)>> \o
                (IF okRemote
                 THEN <<Call(m.localDB, "listTables", "", okLocal, 0)>>
                 ELSE <<>>)
          /\ schemaErr' =
                IF ~okRemote
                THEN [kind |-> "failed to get remote tables", missing |-> 0]
                ELSE IF ~okLocal
                THEN [kind |-> "failed to get local tables", missing |-> 0]
                ELSE SchemaError(Catalog(m.remoteDB), Catalog(m.localDB))
    /\ pc' = "verifyTables"
    /\ UNCHANGED <<dockerVars, inputVars, unusedByVerify, cancelled, db, m,
                   tables, idx, results, runErr, report>>

\* the orders in which a query without ORDER BY can yield the names of S
Orderings(S) ==
    {q \in [1..Cardinality(S) -> S] :
        \A i, j \in 1..Cardinality(S) : q[i] = q[j] => i = j}

\* verifyCmd lines 257-274: the tables to verify are cfg.Migration.Tables,
\* or all public tables of the remote when none is configured; a failure of
\* that query ends the program
VerifyTables ==
    /\ pc = "verifyTables"
    /\ IF Len(config.Tables) > 0
       THEN /\ tables' = config.Tables
            /\ pc' = "verifyLoop"
            /\ idx' = 1
            /\ UNCHANGED <<runErr, log>>
       ELSE \E ok \in Outcomes :
               /\ log' = Append(log, Call(m.remoteDB, "listTables", "", ok, 0))
               /\ IF ok
                  THEN /\ tables' \in Orderings(Catalog(m.remoteDB))
                       /\ pc' = "verifyLoop"
                       /\ idx' = 1
                       /\ runErr' = runErr
                  ELSE /\ pc' = "fatal"
                       /\ runErr' = "Failed to get tables"
                       /\ UNCHANGED <<tables, idx>>
    /\ UNCHANGED <<dockerVars, inputVars, verifyVars, unusedByVerify,
                   cancelled, db, m, results>>

\* getRowCount: SELECT COUNT(*) FROM t on database d
RowCount(d, t) == Len(db[d][t])

\* mutant of Compared: the difference is taken the other way round
ComparedLocalFirst(t, remoteCount, localCount) ==
    [Table |-> t, RemoteRows |-> remoteCount, LocalRows |-> localCount,
     Match |-> (localCount - remoteCount = 0),
     RowDiff |-> localCount - remoteCount, Error |-> ""]

\* verifyTable lines 78-92: the result when both counts were obtained
Compared(t, remoteCount, localCount) ==
    [Table |-> t, RemoteRows |-> remoteCount, LocalRows |-> localCount,
     Match |-> (remoteCount - localCount = 0),
     RowDiff |-> remoteCount - localCount, Error |-> ""]

\* mutant of CountFailed: a table whose count failed gets no failure cause
CountFailedSilently(t, remoteCount, err) ==
    [Table |-> t, RemoteRows |-> remoteCount, LocalRows |-> 0,
     Match |-> FALSE, RowDiff |-> 0, Error |-> ""]

\* verifyTable lines 68-77 and 81-85: the result when a count failed is the
\* zero VerificationResult with the table, the remote count when it was
\* obtained, and the error
CountFailed(t, remoteCount, err) ==
    [Table |-> t, RemoteRows |-> remoteCount, LocalRows |-> 0,
     Match |-> FALSE, RowDiff |-> 0, Error |-> err]

\* VerifyAll lines 42-44: verifyTable on the next table, its result appended
verifyTable ==
    /\ pc = "verifyLoop"
    /\ idx <= Len(tables)
    /\ \E okRemote \in OutcomesOn(m.remoteDB, Table),
          okLocal \in OutcomesOn(m.localDB, Table) :
          /\ log' = log \o
                <<Call(m.remoteDB, "count", Table, okRemote, 0)>> \o
                (IF okRemote
                 THEN <<Call(m.localDB, "count", Table, okLocal, 0)>>
                 ELSE <<>>)
          /\ results' = Append(results,
                IF ~okRemote
                THEN CountFailed(Table, 0, "failed to get remote row count")
                ELSE IF ~okLocal
                THEN CountFailed(Table, RowCount(m.remoteDB, Table),
                                 "failed to get local row count")
                ELSE Compared(Table, RowCount(m.remoteDB, Table),
                              RowCount(m.localDB, Table)))
    /\ idx' = idx + 1
    /\ pc' = "verifyLoop"
    /\ UNCHANGED <<dockerVars, inputVars, verifyVars, unusedByVerify,
                   cancelled, db, m, tables, runErr>>

\* VerifyAll line 63: return results, nil
VerifyAllReturn ==
    /\ pc = "verifyLoop"
    /\ idx > Len(tables)
    /\ pc' = "report"
    /\ UNCHANGED <<dockerVars, inputVars, verifyVars, unusedByVerify,
                   cancelled, db, m, tables, idx, results, runErr, log>>

\* GenerateReport lines 194-204: the rows of a result are added to a total
\* only when the result has no error
Counted(r, n) == IF r.Error # "" THEN 0 ELSE n

\* GenerateReport lines 189-208: totalRemoteRows and totalLocalRows
RECURSIVE SumRemoteRows(_)
SumRemoteRows(rs) ==
    IF rs = <<>> THEN 0
    ELSE Counted(rs[1], rs[1].RemoteRows) + SumRemoteRows(Tail(rs))
RECURSIVE SumLocalRows(_)
SumLocalRows(rs) ==
    IF rs = <<>> THEN 0
    ELSE Counted(rs[1], rs[1].LocalRows) + SumLocalRows(Tail(rs))

\* mutant of MatchedTables: the failure cause is not looked at first
MatchedTablesAnyError(rs) == Len(SelectSeq(rs, LAMBDA r : r.Match))

\* GenerateReport lines 194-198: matchedTables is raised for a result
\* without an error whose Match is set
MatchedTables(rs) ==
    Len(SelectSeq(rs, LAMBDA r : r.Error = "" /\ r.Match))

\* GenerateReport lines 187-215: the numbers of the report
ReportOf(rs) ==
    LET totalTables == Len(rs)
        matchedTables == MatchedTables(rs)
        errors == Len(SelectSeq(rs, LAMBDA r : r.Error # ""))
    IN  [totalTables |-> totalTables,
         matchedTables |-> matchedTables,
         mismatched |-> totalTables - matchedTables - errors,
         errors |-> errors,
         totalRemoteRows |-> SumRemoteRows(rs),
         totalLocalRows |-> SumLocalRows(rs)]

\* verifyCmd lines 283-284: the report on the results
GenerateReport ==
    /\ pc = "report"
    /\ report' = ReportOf(results)
    /\ pc' = "done"
    /\ UNCHANGED <<dockerVars, inputVars, schemaErr, unusedByVerify,
                   cancelled, db, m, tables, idx, results, runErr, log>>

NextVerify ==
    \/ VerifySchema
    \/ VerifyTables
    \/ verifyTable
    \/ VerifyAllReturn
    \/ GenerateReport
    \/ Cancel

SpecVerify == InitVerify /\ [][NextVerify]_vars

\* ------------------------------------------- replication and verification
\* a run of any command that replicates or verifies: schema, pull, push or
\* verify
NextRun == Next \/ NextVerify

SpecRun == (Init \/ InitVerify) /\ [][NextRun]_vars

\* ----------------------------------------------------------- config.Load
\* the values a required setting of the configuration can have: absent (no
\* default, or overridden by an empty value) or given
Settings(given) == {"", given}

\* cfg before Load has returned: the zero MigrationConfig
ZeroMigration ==
    [Tables |-> <<>>, ExcludeTables |-> {}, TruncateTables |-> FALSE,
     BatchSize |-> 0, Anonymize |-> FALSE]

\* the state at rootCmd's PersistentPreRun, after v.Unmarshal(&cfg) in Load:
\* loaded is the Config the file, the environment and the defaults gave
InitLoad ==
    /\ cmd \in {"schema", "pull", "push"}
    /\ dryRun \in BOOLEAN
    /\ (cmd # "schema" => ~dryRun)
    /\ config = ZeroMigration
    /\ \E rh \in Settings("db.example"), rd \in Settings("app"),
          ru \in Settings("app"), lh \in Settings("localhost"),
          ld \in Settings("local_db"), b \in -1..MaxBatch :
          loaded = [Remote |-> [Host |-> rh, Database |-> rd, User |-> ru],
                    Local |-> [Host |-> lh, Database |-> ld],
                    Migration |-> [Tables |-> <<>>, ExcludeTables |-> {},
                                   TruncateTables |-> TRUE, BatchSize |-> b,
                                   Anonymize |-> FALSE]]
    /\ db = [d \in Databases |->
               [t \in Named |->
                  IF t \in TableNames /\ d = "remote"
                  THEN RemoteRows(MaxBatch)
                  ELSE <<>>]]
    /\ schemaApplied = [d \in Databases |-> FALSE]
    /\ m = NoHandles
    /\ pc = "load"
    /\ tables = <<>>
    /\ idx = 0
    /\ results = <<>>
    /\ runErr = ""
    /\ cursor = 0
    /\ cursorErr = FALSE
    /\ tx = "none"
    /\ txRows = <<>>
    /\ rowCount = 0
    /\ batchCount = 0
    /\ values = 0
    /\ log = <<>>
    /\ cancelled = FALSE
    /\ columns = <<>>
    /\ selectQuery = <<>>
    /\ insertQuery = <<>>
    /\ cells = <<>>
    /\ fieldName = <<>>
    /\ value = Null
    /\ result = Null
    /\ catalog = [d \in Databases |-> TableNames]
    /\ schemaErr = NoSchemaErr
    /\ report = NoReport
    /\ DockerIdle

\* mutant of Validate: only a negative batch size is rejected
ValidateBatchSizeNonNegative(c) ==
    IF c.Remote.Host = "" THEN "remote.host is required"
    ELSE IF c.Remote.Database = "" THEN "remote.database is required"
    ELSE IF c.Remote.User = "" THEN "remote.user is required"
    ELSE IF c.Local.Host = "" THEN "local.host is required"
    ELSE IF c.Local.Database = "" THEN "local.database is required"
    ELSE IF c.Migration.BatchSize < 0
    THEN "migration.batch_size must be greater than 0"
    ELSE ""

\* Config.Validate: the error it returns ("" for nil)
Validate(c) ==
    IF c.Remote.Host = "" THEN "remote.host is required"
    ELSE IF c.Remote.Database = "" THEN "remote.database is required"
    ELSE IF c.Remote.User = "" THEN "remote.user is required"
    ELSE IF c.Local.Host = "" THEN "local.host is required"
    ELSE IF c.Local.Database = "" THEN "local.database is required"
    ELSE IF c.Migration.BatchSize <= 0
    THEN "migration.batch_size must be greater than 0"
    ELSE ""

\* Load from cfg.Validate() on, and rootCmd's PersistentPreRun: an error of
\* Load ends the program (os.Exit(1)) before the command runs; otherwise
\* the command runs on the Config that Load returned
Load ==
    /\ pc = "load"
    /\ IF Validate(loaded) # ""
       THEN /\ config' = config
            /\ pc' = "fatal"
            /\ runErr' = Validate(loaded)
       ELSE /\ config' = loaded.Migration
            /\ pc' = "start"
            /\ runErr' = runErr
    /\ UNCHANGED <<dockerVars, cmd, dryRun, catalog, loaded, verifyVars,
                   anonVars, cancelled, stmtVars, db, schemaApplied, m,
                   tables, idx, results, copyVars, log>>

NextLoad == Load \/ Next

SpecLoad == InitLoad /\ [][NextLoad]_vars

\* ---------------------------------------------------------- docker client
\* Start line 62: WaitForHealthy(ctx, 30*time.Second), in seconds
Timeout == 30

\* the most whole seconds that pass between two ticks WaitForHealthy
\* receives: the ticker fires every second and drops the ticks of a poll
\* that took longer
MaxGap == 2

\* the state when a command calls dockerClient.EnsureRunning(ctx)
InitDocker ==
    /\ cmd \in {"schema", "pull", "push"}
    /\ dryRun = FALSE
    /\ config = [Tables |-> <<>>, ExcludeTables |-> {},
                 TruncateTables |-> TRUE, BatchSize |-> 1,
                 Anonymize |-> FALSE]
    /\ db = [d \in Databases |-> [t \in Named |-> <<>>]]
    /\ schemaApplied = [d \in Databases |-> FALSE]
    /\ m = NoHandles
    /\ pc = "ensureRunning"
    /\ tables = <<>>
    /\ idx = 0
    /\ results = <<>>
    /\ runErr = ""
    /\ cursor = 0
    /\ cursorErr = FALSE
    /\ tx = "none"
    /\ txRows = <<>>
    /\ rowCount = 0
    /\ batchCount = 0
    /\ values = 0
    /\ log = <<>>
    /\ cancelled = FALSE
    /\ columns = <<>>
    /\ selectQuery = <<>>
    /\ insertQuery = <<>>
    /\ cells = <<>>
    /\ fieldName = <<>>
    /\ value = Null
    /\ result = Null
    /\ catalog = [d \in Databases |-> TableNames]
    /\ loaded = Accepted(config)
    /\ schemaErr = NoSchemaErr
    /\ report = NoReport
    /\ autoStart \in BOOLEAN
    /\ composeFound \in BOOLEAN
    /\ running \in BOOLEAN
    /\ ready \in BOOLEAN
    /\ (ready => running)
    /\ isRunning = ""
    /\ starts = 0
    /\ elapsed = 0
    /\ lastPoll = "none"

\* the variables of the pipeline and of the verify command, which the
\* docker client does not use
unusedByDocker ==
    <<inputVars, verifyVars, anonVars, stmtVars, copyVars, db, schemaApplied,
      m, tables, idx, results, log>>

\* Client.IsRunning: docker ps names the container iff it is running; the
\* value is "error" when the command failed
IsRunning(ok) ==
    IF ~ok THEN "error" ELSE IF running THEN "running" ELSE "stopped"

\* mutant of MayStart: the container is started whatever autoStart says
MayStartAlways(status, auto) == status = "stopped"

\* EnsureRunning lines 137-152: Start is reached when IsRunning returned
\* false without an error and autoStart is set
MayStart(status, auto) == status = "stopped" /\ auto

\* Client.EnsureRunning up to its return or its call of Start; the commands
\* end the program when it returns an error
EnsureRunning ==
    /\ pc = "ensureRunning"
    /\ \E ok \in Outcomes :
          /\ isRunning' = IsRunning(ok)
          /\ IF MayStart(IsRunning(ok), autoStart)
             THEN /\ pc' = "dockerStart"
                  /\ starts' = starts + 1
                  /\ runErr' = runErr
             ELSE /\ starts' = starts
                  /\ IF IsRunning(ok) = "error"
                     THEN /\ pc' = "fatal"
                          /\ runErr' = "failed to check container status"
                     ELSE IF IsRunning(ok) = "running"
                     THEN /\ pc' = "done"
                          /\ runErr' = runErr
                     ELSE /\ pc' = "fatal"
                          /\ runErr' = "postgres container is not running and auto-start is disabled"
    /\ UNCHANGED <<unusedByDocker, cancelled, autoStart, composeFound,
                   running, ready, elapsed, lastPoll>>

\* Client.Start lines 47-62: the compose file is looked up, docker-compose
\* up -d is run, and WaitForHealthy is called
Start ==
    /\ pc = "dockerStart"
    /\ IF ~composeFound
       THEN /\ pc' = "fatal"
            /\ runErr' = "docker-compose file not found"
            /\ UNCHANGED <<running, elapsed>>
       ELSE \E ok \in Outcomes :
               IF ok
               THEN /\ running' = TRUE
                    /\ elapsed' = 0
                    /\ pc' = "waitForHealthy"
                    /\ runErr' = runErr
               ELSE /\ pc' = "fatal"
                    /\ runErr' = "failed to start container"
                    /\ UNCHANGED <<running, elapsed>>
    /\ UNCHANGED <<unusedByDocker, cancelled, autoStart, composeFound, ready,
                   isRunning, starts, lastPoll>>

\* mutant of DeadlinePassed: the deadline is never looked at
DeadlineIgnored(seconds) == FALSE

\* WaitForHealthy line 107: time.Now().After(deadline); a tick arrives a
\* moment after a whole second, so the deadline of Timeout seconds has
\* passed at the tick of second Timeout
DeadlinePassed(seconds) == seconds >= Timeout

\* mutant of Probe: a container that is running is taken to be healthy
ProbeSkipped(status, okReady) ==
    IF status = "error" THEN "psFailed"
    ELSE IF status = "stopped" THEN "notRunning"
    ELSE "ready"

\* WaitForHealthy lines 112-129: one poll; pg_isready is run only when
\* IsRunning returned true without an error
Probe(status, okReady) ==
    IF status = "error" THEN "psFailed"
    ELSE IF status = "stopped" THEN "notRunning"
    ELSE IF okReady THEN "ready"
    ELSE "notReady"

\* WaitForHealthy lines 106-130: the case <-ticker.C of the select, which
\* can be taken also when the context is done
Tick ==
    /\ pc = "waitForHealthy"
    /\ \E gap \in 1..MaxGap :
          /\ elapsed' = min(elapsed + gap, Timeout + MaxGap)
          /\ IF DeadlinePassed(min(elapsed + gap, Timeout + MaxGap))
             THEN /\ pc' = "fatal"
                  /\ runErr' = "timeout waiting for container to be healthy"
                  /\ lastPoll' = lastPoll
             ELSE \E okPs \in Outcomes, okExec \in Outcomes :
                     /\ lastPoll' = Probe(IsRunning(okPs), okExec /\ ready)
                     /\ IF Probe(IsRunning(okPs), okExec /\ ready) = "ready"
                        THEN pc' = "done"
                        ELSE pc' = pc
                     /\ runErr' = runErr
    /\ UNCHANGED <<unusedByDocker, cancelled, autoStart, composeFound,
                   running, ready, isRunning, starts>>

\* WaitForHealthy lines 104-105: the case <-ctx.Done() of the select
CtxDone ==
    /\ pc = "waitForHealthy"
    /\ cancelled
    /\ pc' = "fatal"
    /\ runErr' = "context canceled"
    /\ UNCHANGED <<unusedByDocker, cancelled, dockerVars>>

\* Postgres in the running container starts to accept connections
PostgresReady ==
    /\ pc \in {"dockerStart", "waitForHealthy"}
    /\ running
    /\ ~ready
    /\ ready' = TRUE
    /\ UNCHANGED <<unusedByDocker, cancelled, pc, runErr, autoStart,
                   composeFound, running, isRunning, starts, elapsed,
                   lastPoll>>

\* the container stops on its own
ContainerExits ==
    /\ pc \in {"dockerStart", "waitForHealthy"}
    /\ running
    /\ running' = FALSE
    /\ ready' = FALSE
    /\ UNCHANGED <<unusedByDocker, cancelled, pc, runErr, autoStart,
                   composeFound, isRunning, starts, elapsed, lastPoll>>

NextDocker ==
    \/ EnsureRunning
    \/ Start
    \/ Tick
    \/ CtxDone
    \/ PostgresReady
    \/ ContainerExits
    \/ Cancel

SpecDocker == InitDocker /\ [][NextDocker]_vars

\* the ticker of WaitForHealthy keeps firing, and a done context is seen
\* by the select unless a tick is taken
SpecDockerFair == SpecDocker /\ WF_vars(Tick)

\* ------------------------------------------------- vocabulary of claims
\* migrateTable has just returned to the loop of MigrateAll
JustReturned == pc = "loop" /\ idx > 1 /\ Len(results) > 0

\* the table of the copy that has just returned, and its result
LastTable == tables[idx - 1]
LastResult == results[Len(results)]

\* the positions inside migrateTable
CopyPcs == {"truncate", "columns", "query", "prepare", "begin", "next",
            "scan", "insert", "commit", "beginNew", "finalCommit"}

\* the rows of s that are rows of the source table t
FromSource(t, s) ==
    SelectSeq(s, LAMBDA r : r \in Range(db[m.remoteDB][t]))

\* the calls of kind op about table t, in the order they were issued
CallsOf(op, t) ==
    SelectSeq(log, LAMBDA c : c.op = op /\ c.table = t)

\* the number of committed batches of BatchSize rows of table t
FullBatches(t) ==
    Len(SelectSeq(CallsOf("commit", t),
                  LAMBDA c : c.ok /\ c.n = config.BatchSize))

Ceil(n, b) == (n + b - 1) \div b

\* ---------------------------------------------------------------- C1
\* C1: when the copy of a table with N source rows returns Success=true,
\* RowsMigrated is N and the destination holds exactly the N source rows as
\* committed inserts of this copy.
C1_SuccessCopiesAllRows ==
    JustReturned /\ LastResult.Success =>
        /\ LastResult.RowsMigrated = Len(db[m.remoteDB][LastTable])
        /\ FromSource(LastTable, db[m.localDB][LastTable])
              = db[m.remoteDB][LastTable]

\* a successful copy of three rows in batches of two
C1_Witness ==
    /\ JustReturned
    /\ LastResult.Success
    /\ LastResult.RowsMigrated = 3
    /\ config.BatchSize = 2

\* ---------------------------------------------------------------- C2
\* C2 (as stated): a successful copy of N rows with batch size B performs
\* exactly ceil(N / B) destination commits.
C2_CeilCommits ==
    JustReturned /\ LastResult.Success =>
        Len(CallsOf("commit", LastTable))
            = Ceil(Len(db[m.remoteDB][LastTable]), config.BatchSize)

\* C2 (amended): a successful copy of N rows with batch size B performs
\* exactly floor(N / B) + 1 destination commits: floor(N / B) commits of B
\* rows each, then a final commit of the remaining N mod B rows, which is
\* empty when B divides N.
C2_FloorPlusOneCommits ==
    JustReturned /\ LastResult.Success =>
        LET commits == CallsOf("commit", LastTable)
            N == Len(db[m.remoteDB][LastTable])
            B == config.BatchSize
        IN  /\ Len(commits) = (N \div B) + 1
            /\ \A i \in 1..Len(commits) :
                  /\ commits[i].ok
                  /\ commits[i].n = IF i = Len(commits) THEN N % B ELSE B

\* a successful copy whose row count is a positive multiple of the batch
\* size: the final commit is empty
C2_Witness ==
    /\ JustReturned
    /\ LastResult.Success
    /\ LastResult.RowsMigrated = 2
    /\ config.BatchSize = 2
    /\ Len(CallsOf("commit", LastTable)) = 2

\* ---------------------------------------------------------------- C3
\* the results follow the resolved table list, one per table attempted
C3_OnePerTable ==
    /\ pc \in CopyPcs \cup {"loop"} => Len(results) = idx - 1
    /\ pc \in CopyPcs \cup {"loop", "done"} =>
          /\ Len(results) <= Len(tables)
          /\ \A i \in 1..Len(results) : results[i].Table = tables[i]
    /\ pc = "done" /\ cmd # "schema" =>
          /\ Len(results) = Len(tables)
          /\ \A i \in 1..Len(tables) :
                \E j \in 1..Len(log) : log[j].table = tables[i]

\* a result, once recorded, is never changed or removed
C3_ResultsKept ==
    \A i \in 1..Len(results) :
        Len(results') >= i /\ results'[i] = results[i]

\* C3: MigrateAll returns exactly one outcome per table of the resolved
\* table set, in resolution order; every table is attempted whatever the
\* outcomes of the tables before it, and a recorded outcome is never
\* changed by what happens to a later table.
C3_PartialFailureIsolation == [](C3_OnePerTable) /\ [][C3_ResultsKept]_vars

\* a run that ended with a successful first table and a failed second one
C3_Witness ==
    /\ pc = "done"
    /\ Len(results) = 2
    /\ results[1].Success
    /\ results[1].RowsMigrated > 0
    /\ ~results[2].Success

\* ---------------------------------------------------------------- C4
\* the table a copy is working on or has just returned from
CopyTable == IF pc \in CopyPcs THEN Table ELSE LastTable

\* C4: during a table copy and when it returns, also with a failure, the
\* k*B rows of the k full batches committed so far are in the destination
\* table, in source order: a failure later in the same copy does not roll
\* them back.
C4_CommittedBatchesKept ==
    pc \in CopyPcs \/ JustReturned =>
        LET kB == FullBatches(CopyTable) * config.BatchSize
            kept == FromSource(CopyTable, db[m.localDB][CopyTable])
        IN  /\ kB <= Len(kept)
            /\ \A i \in 1..kB : kept[i] = db[m.remoteDB][CopyTable][i]

\* a copy that failed at a row insert or a row scan after a committed batch
C4_Witness ==
    /\ JustReturned
    /\ ~LastResult.Success
    /\ LastResult.Error \in {"failed to insert row", "failed to scan row"}
    /\ FullBatches(LastTable) >= 1
    /\ Len(db[m.localDB][LastTable]) >= config.BatchSize

\* ---------------------------------------------------------------- C5
\* the rows of the source table inserted since the last batch commit
SinceLastBatch ==
    {db[m.remoteDB][LastTable][i] : i \in (rowCount - batchCount + 1)..rowCount}

\* C5: a copy that met a source-read error (a failed scan, or a cursor that
\* stopped with an error) or an insert error returns a failure carrying the
\* cause, and none of the rows inserted since the last batch commit are in
\* the destination.
C5_ErrorRollsBackOpenTx ==
    JustReturned
    /\ (cursorErr \/ (~LastResult.Success /\ LastResult.Error \in
                        {"failed to insert row", "failed to scan row"})) =>
        /\ ~LastResult.Success
        /\ LastResult.Error # ""
        /\ SinceLastBatch \cap Range(db[m.localDB][LastTable]) = {}


\* ---------------------------------------------------------------- C6
\* the calls that read table rows, and the calls that change table rows
RowReadOps == {"select", "next", "scan"}
RowWriteOps == {"truncate", "insert"}

\* push reads rows from the local database only and writes rows to the
\* remote database only
C6_PushCalls ==
    cmd = "push" =>
        \A i \in 1..Len(log) :
            /\ log[i].op \in RowReadOps => log[i].db = "local"
            /\ log[i].op \in RowWriteOps => log[i].db = "remote"

\* push leaves the rows of the local database as they are
C6_PushKeepsLocal == cmd = "push" => db'["local"] = db["local"]

\* C6: the data step of push copies from the local database into the
\* remote one: every row read goes to the local database, every truncate
\* and insert goes to the remote database, and the contents of the local
\* database are unchanged by push.
C6_PushLocalToRemote == [](C6_PushCalls) /\ [][C6_PushKeepsLocal]_vars

\* ---------------------------------------------------------------- C7
\* C7: schema migration with dry-run=true applies no schema change to the
\* local database, whether the Atlas command succeeds or fails.
C7_DryRunAppliesNothing ==
    cmd = "schema" /\ dryRun => ~schemaApplied["local"]

\* ---------------------------------------------------------------- C8
\* the tables whose destination-side truncate failed
TruncateFailed == {log[j].table : j \in {k \in 1..Len(log) :
                        log[k].op = "truncate" /\ ~log[k].ok}}

\* C8: with truncate enabled, every read of a table's rows from the source
\* comes after a successful truncate of that table on the destination; a
\* table whose truncate failed gets a failure result, and no row of it is
\* read from the source or inserted into the destination.
C8_TruncateBeforeRead ==
    /\ config.TruncateTables =>
          \A i \in 1..Len(log) :
              log[i].op \in RowReadOps =>
                  \E j \in 1..(i - 1) :
                      /\ log[j].op = "truncate"
                      /\ log[j].ok
                      /\ log[j].table = log[i].table
                      /\ log[j].db = m.localDB
    /\ \A t \in TruncateFailed :
          /\ \A i \in 1..Len(log) :
                log[i].table = t =>
                    log[i].op \notin RowReadOps \cup {"insert"}
          /\ \E r \in 1..Len(results) :
                /\ results[r].Table = t
                /\ ~results[r].Success
                /\ results[r].Error = "failed to truncate table"

\* a run in which one table's truncate failed and another table's rows
\* were read after its truncate
C8_Witness ==
    /\ config.TruncateTables
    /\ TruncateFailed # {}
    /\ \E i \in 1..Len(log) : log[i].op = "scan" /\ log[i].ok

\* ---------------------------------------------------------------- C9
\* C9: no call is issued to the destination about a table, the truncate
\* included, before the introspection of the table's columns has
\* succeeded.
C9_IntrospectFirst ==
    m # NoHandles =>
        \A i \in 1..Len(log) :
            log[i].db = m.localDB /\ log[i].table # "" =>
                \E j \in 1..(i - 1) :
                    /\ log[j].op = "listColumns"
                    /\ log[j].ok
                    /\ log[j].table = log[i].table

\* --------------------------------------------------------------- C10
\* the rows of table t inserted so far by the run: the committed ones, then
\* the ones of the open transaction
InsertedSoFar(t) ==
    FromSource(t, db[m.localDB][t])
        \o (IF pc \in CopyPcs /\ Table = t THEN txRows ELSE <<>>)

\* C10: at every point of a run, the rows of a table inserted so far, first
\* the committed ones in commit order and then those of the open
\* transaction in insert order, are the first rows the source cursor
\* yields, in the order it yields them.
C10_RowOrderPreserved ==
    m # NoHandles =>
        \A t \in TableNames :
            InsertedSoFar(t)
                = SubSeq(db[m.remoteDB][t], 1, Len(InsertedSoFar(t)))

\* two rows committed in one batch and a third in the open transaction
C10_Witness ==
    /\ pc \in CopyPcs
    /\ config.BatchSize = 2
    /\ Len(FromSource(Table, db[m.localDB][Table])) = 2
    /\ Len(txRows) = 1

\* --------------------------------------------------------------- C11
\* the positions of migrateTable after the SELECT was built, and after the
\* INSERT was built
AfterQuery == {"prepare", "begin", "next", "scan", "insert", "commit",
               "beginNew", "finalCommit"}
AfterPrepare == AfterQuery \ {"prepare"}

\* the values row k of table t can be inserted with in column col
InsertableValues(t, col, k) ==
    IF config.Anonymize
    THEN {AnonymizeValue(col, CellValue(t, col, k), r) : r \in Draws}
    ELSE {CellValue(t, col, k)}

\* C11: in every table copy the column sequence of the source SELECT and of
\* the destination INSERT is the sequence column introspection returned, and
\* the row handed to the INSERT has one value per column of that sequence,
\* the i-th value being the (possibly anonymized) value of the i-th column.
C11_ColumnOrderKept ==
    /\ pc \in AfterQuery =>
          /\ columns = CatalogColumns(m.remoteDB, Table)
          /\ selectQuery = columns
    /\ pc \in AfterPrepare => insertQuery = columns
    /\ pc = "insert" =>
          /\ Len(cells) = Len(insertQuery)
          /\ \A i \in 1..Len(cells) :
                cells[i] \in InsertableValues(Table, insertQuery[i], values)

\* a row of users about to be inserted with its email anonymized
C11_Witness ==
    /\ pc = "insert"
    /\ Table = "users"
    /\ config.Anonymize
    /\ Len(cells) = 2
    /\ cells[2] # CellValue("users", insertQuery[2], values)

\* --------------------------------------------------------------- C12
\* C12: once the cancellation signal has been raised, the loop of MigrateAll
\* does not enter the table copy of a table it has not started yet.
C12_NoCopyAfterCancel ==
    [][cancelled /\ pc = "loop" => pc' \notin CopyPcs]_vars

\* --------------------------------------------------------------- C13
\* C13: at every point of a table copy with batch size B >= 1 the number of
\* rows inserted in the open destination transaction and not yet committed
\* is at most B.
C13_OpenTxBounded ==
    /\ config.BatchSize >= 1
    /\ Len(txRows) <= config.BatchSize
    /\ pc \in CopyPcs => rowCount - Len(txRows) =
                            Len(SelectSeq(CallsOf("commit", Table),
                                          LAMBDA c : c.ok)) * config.BatchSize

\* a full batch of the largest size waits for its commit
C13_Witness ==
    /\ pc = "commit"
    /\ config.BatchSize = MaxBatch
    /\ Len(txRows) = config.BatchSize
    /\ rowCount = batchCount

\* --------------------------------------------------------------- C14
\* the positions of a run after the table set was resolved
Resolved == CopyPcs \cup {"loop", "done"}

\* C14: with a non-empty allow-list the tables to copy are that list, in its
\* configured order and with the excluded names still in it, and the source
\* catalog is never asked for its tables.
C14_AllowListVerbatim ==
    Len(config.Tables) > 0 =>
        /\ pc \in Resolved => tables = config.Tables
        /\ \A i \in 1..Len(log) : log[i].op # "listTables"

\* an allow-list in non-catalog order that names an excluded table is about
\* to be copied
C14_Witness ==
    /\ pc = "loop"
    /\ idx = 1
    /\ config.Tables = <<"users", "orders">>
    /\ config.ExcludeTables = {"orders"}
    /\ tables = <<"users", "orders">>

\* --------------------------------------------------------------- C15
\* the characters of a table name
Spelling(t) ==
    IF t = "users" THEN <<"u", "s", "e", "r", "s">>
    ELSE IF t = "orders" THEN <<"o", "r", "d", "e", "r", "s">>
    ELSE <<"g", "h", "o", "s", "t">>

\* the position of a lower-case letter in the alphabet
CharRank(c) == CHOOSE i \in 1..Len(LowerChars) : LowerChars[i] = c

\* a comes before b in lexicographic order
LexLess(a, b) ==
    \E k \in 1..(min(Len(a), Len(b)) + 1) :
        /\ SubSeq(a, 1, k - 1) = SubSeq(b, 1, k - 1)
        /\ IF k > Len(a) THEN k <= Len(b)
           ELSE k <= Len(b) /\ CharRank(a[k]) < CharRank(b[k])

\* C15: with no allow-list the tables to copy are exactly the tables of the
\* source's public schema that are not excluded, each once, in lexicographic
\* order of their names.
C15_DiscoveryLexicographic ==
    cmd # "schema" /\ Len(config.Tables) = 0 /\ pc \in Resolved =>
        /\ Range(tables) = Catalog(m.remoteDB) \ config.ExcludeTables
        /\ \A i, j \in 1..Len(tables) :
              i < j => LexLess(Spelling(tables[i]), Spelling(tables[j]))

\* discovery found both tables of the source
C15_Witness ==
    /\ pc = "loop"
    /\ idx = 1
    /\ Len(config.Tables) = 0
    /\ config.ExcludeTables = {}
    /\ log[Len(log)].op = "listTables"
    /\ tables = <<"orders", "users">>

\* discovery left the excluded table out
C15_WitnessExcluded ==
    /\ pc = "loop"
    /\ idx = 1
    /\ Len(config.Tables) = 0
    /\ config.ExcludeTables = {"orders"}
    /\ tables = <<"users">>

\* --------------------------------------------------------------- C16
\* the query of the source catalog for its tables failed
CatalogQueryFailed ==
    \E i \in 1..Len(log) : log[i].op = "listTables" /\ ~log[i].ok

\* C16: when the query of the source catalog for its tables fails, the run
\* ends with the error "failed to get tables" and without outcomes, and the
\* failed query is the only call any database received: no table is
\* truncated, read or written.
C16_CatalogFailureIsFatal ==
    CatalogQueryFailed =>
        /\ pc = "fatal"
        /\ runErr = "failed to get tables"
        /\ results = <<>>
        /\ tables = <<>>
        /\ \A i \in 1..Len(log) : log[i].op = "listTables"

\* the run has ended on the failed catalog query
C16_Witness ==
    /\ CatalogQueryFailed
    /\ pc = "fatal"
    /\ Len(config.Tables) = 0
    /\ log = <<Call(m.remoteDB, "listTables", "", FALSE, 0)>>

\* --------------------------------------------------------------- C17
\* C17: column introspection of a table the source catalog does not have
\* fails, and the copy of that table returns the failure of the
\* introspection as its result.
C17_AbsentTableIntrospectionFails ==
    /\ \A i \in 1..Len(log) :
          log[i].op = "listColumns" /\ ~Exists(log[i].db, log[i].table) =>
              ~log[i].ok
    /\ \A r \in 1..Len(results) :
          /\ ~Exists(m.remoteDB, results[r].Table)
          /\ \E i \in 1..Len(log) :
                log[i].op = "listColumns" /\ log[i].table = results[r].Table
          => results[r].Error = "failed to get columns"

\* --------------------------------------------------------------- C18
\* C18: with truncation enabled, a successful copy of a table whose
\* destination still holds rows of an earlier attempt (the first rows of the
\* source, or all of them) and other rows leaves the destination table
\* holding exactly the source rows, each once and in source order.
C18_TruncateAndRerun ==
    JustReturned /\ LastResult.Success /\ config.TruncateTables =>
        db[m.localDB][LastTable] = db[m.remoteDB][LastTable]

\* the first table was copied again over what an earlier attempt left; the
\* second table still holds what the earlier attempt left of it
C18_Witness ==
    /\ JustReturned
    /\ LastResult.Success
    /\ config.TruncateTables
    /\ tables = <<"orders", "users">>
    /\ idx = 2
    /\ Len(db[m.localDB]["orders"]) >= 2
    /\ db[m.localDB]["users"]
          = LocalInit(config, db[m.remoteDB]["users"], MaxStale)
    /\ Len(db[m.localDB]["users"]) = 2

\* --------------------------------------------------------------- C19
\* C19: for every field name, also one that matches a rule, and every value
\* that is not a string (nil, a number, a timestamp, bytes), AnonymizeValue
\* returns the value it was given.
C19_NonStringUnchanged ==
    pc = "anonymized" /\ value.type # "string" => result = value

\* a number in a field named like an e-mail address came back as it was
C19_Witness ==
    /\ pc = "anonymized"
    /\ value.type = "int64"
    /\ RuleOf(ToLower(fieldName)) = "email"
    /\ result = value

\* --------------------------------------------------------------- C20
\* every pattern of every rule
AllPatterns ==
    EmailPatterns \o PhonePatterns \o PasswordPatterns \o NamePatterns
        \o SsnPatterns \o CreditPatterns \o AddressPatterns

\* C20: for every field name whose lower-cased form contains no pattern of
\* any rule, AnonymizeValue returns the value it was given, string or not.
C20_IdentityOnNonMatch ==
    pc = "anonymized" /\ ~containsAny(ToLower(fieldName), AllPatterns) =>
        result = value

\* a non-empty string in a field no pattern occurs in came back as it was
C20_Witness ==
    /\ pc = "anonymized"
    /\ ~containsAny(ToLower(fieldName), AllPatterns)
    /\ fieldName # ToLower(fieldName)
    /\ value.type = "string"
    /\ Len(value.v) > 0
    /\ result = value

\* --------------------------------------------------------------- C21
\* the patterns of the rules in their fixed order: email, phone, password,
\* name, ssn, credit card, address
RuleOrder ==
    <<EmailPatterns, PhonePatterns, PasswordPatterns, NamePatterns,
      SsnPatterns, CreditPatterns, AddressPatterns>>

\* the position of the first rule one of whose patterns occurs in the
\* lower-cased name, 0 when there is none
FirstMatch(lower) ==
    IF \E k \in 1..Len(RuleOrder) : containsAny(lower, RuleOrder[k])
    THEN CHOOSE k \in 1..Len(RuleOrder) :
            /\ containsAny(lower, RuleOrder[k])
            /\ \A j \in 1..(k - 1) : ~containsAny(lower, RuleOrder[j])
    ELSE 0

\* the strings the k-th rule can turn the string v into, applied once
RuleResults(k, v) ==
    CASE k = 1 -> {AnonymizeEmail(v, r) : r \in Draws}
      [] k = 2 -> {AnonymizePhone(v, r) : r \in Draws}
      [] k = 3 -> {AnonymizePassword(r) : r \in Draws}
      [] k = 4 -> {AnonymizeName(v)}
      [] k = 5 -> {AnonymizeSSN(v, r) : r \in Draws}
      [] k = 6 -> {AnonymizeCreditCard(v)}
      [] k = 7 -> {AnonymizeAddress(v, r) : r \in Draws}
      [] OTHER -> {v}

\* C21: the rule applied to a string value is the first rule, in the order
\* email, phone, password, name, ssn, credit card, address, one of whose
\* patterns is a substring of the lower-cased field name; the result is that
\* rule applied once to the value, whatever later rules the name matches.
C21_FirstMatchWins ==
    pc = "anonymized" /\ value.type = "string" =>
        /\ result.type = "string"
        /\ result.v \in RuleResults(FirstMatch(ToLower(fieldName)), value.v)

\* email_address holds a pattern of the email rule and two of the address
\* rule; its value was masked as an e-mail address
C21_Witness ==
    /\ pc = "anonymized"
    /\ fieldName = <<"e", "m", "a", "i", "l", "_", "a", "d", "d", "r", "e",
                     "s", "s">>
    /\ containsAny(ToLower(fieldName), AddressPatterns)
    /\ value = Value("string", <<"a", "@", "b", ".", "c">>)
    /\ result.v \in {<<"a", "@">> \o domains[i] : i \in 1..Len(domains)}

\* --------------------------------------------------------------- C22
\* the strings among the values AnonymizeValue is called with
StringValues == {v \in Values : v.type = "string"}

\* h is a bcrypt hash of the placeholder secret "changeme123": computed
\* with some salt, or the pre-computed one
IsPlaceholderHash(h) ==
    /\ Len(h) >= 3
    /\ h[1] = "$2a$10$"
    /\ h[Len(h)] \in {"bcrypt(changeme123)", "IjZAgcfl7p92ldGxad68LJZdL17lhWy"}

\* C22: for a field name that selects the password rule the result is a
\* hash of the constant placeholder secret, it is a result every other
\* string input, the empty string included, can produce as well, and it is
\* not the original value.
C22_PasswordIgnoresInput ==
    pc = "anonymized" /\ value.type = "string"
    /\ FirstMatch(ToLower(fieldName)) = 3 =>
        /\ IsPlaceholderHash(result.v)
        /\ result # value
        /\ \A v \in StringValues :
              \E r \in Draws : AnonymizeValue(fieldName, v, r) = result

\* the empty password came back as a hash
C22_Witness ==
    /\ pc = "anonymized"
    /\ FirstMatch(ToLower(fieldName)) = 3
    /\ value = Value("string", <<>>)
    /\ IsPlaceholderHash(result.v)

\* --------------------------------------------------------------- C23
\* the bytes that continue a character, the first character of a string and
\* the number of its characters
ContinuationBytes == {"A9", "83"}
FirstChar(s) ==
    IF Len(s) >= 2 /\ s[2] \in ContinuationBytes
    THEN SubSeq(s, 1, 2) ELSE SubSeq(s, 1, 1)
CharLen(s) == Len(SelectSeq(s, LAMBDA b : b \notin ContinuationBytes))

\* the part of an e-mail address before its '@'
LocalPart(email) == SubSeq(email, 1, IndexOf(email, "@") - 1)

\* C23: for a string with exactly one '@' and a local part of L >= 1
\* characters the email rule returns the first character of the local part,
\* min(L-1, 5) mask characters '*', '@' and one of the three domains.
C23_EmailRule ==
    pc = "anonymized" /\ value.type = "string"
    /\ FirstMatch(ToLower(fieldName)) = 1
    /\ Count(value.v, "@") = 1 /\ CharLen(LocalPart(value.v)) >= 1 =>
        result.v \in
            {FirstChar(LocalPart(value.v))
                \o Repeat("*", min(CharLen(LocalPart(value.v)) - 1, 5))
                \o <<"@">> \o domains[i] : i \in 1..Len(domains)}

\* --------------------------------------------------------------- C24
\* what the phone rule is said to return for the string v: the placeholder
\* number when v has fewer than 10 digits, else '+', the first two digits,
\* '-555-' and four digits
IsMaskedPhone(v, out) ==
    LET digits == OnlyDigits(v)
    IN  IF Len(digits) < 10
        THEN out = PlaceholderPhone
        ELSE /\ Len(out) = 12
             /\ SubSeq(out, 1, 8) = <<"+">> \o SubSeq(digits, 1, 2)
                                       \o <<"-", "5", "5", "5", "-">>
             /\ \A i \in 9..12 : IsDigit(out[i])

\* C24 (as stated): every string value of a field selecting the phone rule
\* becomes the placeholder number or the masked number.
C24_PhoneRuleEveryString ==
    pc = "anonymized" /\ value.type = "string"
    /\ FirstMatch(ToLower(fieldName)) = 2 =>
        IsMaskedPhone(value.v, result.v)

\* C24 (amended): every non-empty string value of a field selecting the
\* phone rule becomes the placeholder number when it has fewer than 10
\* digits and the masked number otherwise; the empty string stays empty.
C24_PhoneRuleNonEmpty ==
    pc = "anonymized" /\ value.type = "string"
    /\ FirstMatch(ToLower(fieldName)) = 2 =>
        IF value.v = <<>>
        THEN result.v = <<>>
        ELSE IsMaskedPhone(value.v, result.v)

\* a number of twelve digits came back with its first two digits and a
\* suffix that starts with zeros
C24_Witness ==
    /\ pc = "anonymized"
    /\ FirstMatch(ToLower(fieldName)) = 2
    /\ Len(OnlyDigits(value.v)) >= 10
    /\ SubSeq(result.v, 1, 10) =
          <<"+", "4", "4", "-", "5", "5", "5", "-", "0", "0">>

\* the outcomes in results were produced by VerifyAll (GenerateReport was
\* not called on given outcomes)
Produced == idx >= 1

CountFailedOn(t) ==
    \E j \in 1..Len(log) :
        log[j].op = "count" /\ log[j].table = t /\ ~log[j].ok

\* C26: VerifyAll yields one outcome per input table in input order and no
\* error of its own; a table whose count failed (or that the local database
\* does not have) gets a failure cause and Match = FALSE, and the tables
\* after it are still verified
C26_ErrorsTableScoped ==
    (Produced /\ pc \in {"verifyLoop", "report", "done"}) =>
        /\ Len(results) = idx - 1
        /\ pc \in {"report", "done"} => Len(results) = Len(tables)
        /\ runErr = ""
        /\ \A i \in 1..Len(results) :
              /\ results[i].Table = tables[i]
              /\ (CountFailedOn(tables[i]) \/ ~Exists(m.localDB, tables[i]))
                    => (results[i].Error # "" /\ ~results[i].Match)
              /\ results[i].Error # "" => CountFailedOn(tables[i])

C26_Witness ==
    /\ Produced
    /\ pc = "report"
    /\ Len(results) = 2
    /\ ~Exists(m.localDB, tables[1])
    /\ results[1].Error # ""
    /\ results[2].Error = ""

\* both catalog queries of VerifySchema succeeded
BothListed ==
    /\ Len(log) >= 2
    /\ log[1].op = "listTables" /\ log[1].ok
    /\ log[2].op = "listTables" /\ log[2].ok /\ log[2].db = m.localDB

\* C27: when both catalog queries succeed, VerifySchema reports a schema
\* mismatch iff some remote table is absent from the local, the count it
\* reports is the size of (remote tables) \ (local tables), and tables only
\* the local has cause no mismatch
C27_SchemaMismatch ==
    BothListed =>
        /\ (schemaErr.kind = "schema mismatch") <=>
              (\E t \in catalog[m.remoteDB] : t \notin catalog[m.localDB])
        /\ schemaErr.missing =
              Cardinality(catalog[m.remoteDB] \ catalog[m.localDB])
        /\ catalog[m.remoteDB] \subseteq catalog[m.localDB]
              => schemaErr = NoSchemaErr

C27_Witness ==
    /\ BothListed
    /\ schemaErr.kind = "schema mismatch"
    /\ schemaErr.missing = 1
    /\ catalog[m.localDB] \ catalog[m.remoteDB] # {}

\* the number of outcomes of results in one class of the report
NumberOf(Class(_)) == Cardinality({i \in 1..Len(results) : Class(results[i])})

\* C28: in the report each outcome is counted once: as an error when it has
\* a failure cause, else as matched when Match is set, else as mismatched;
\* the three counts add up to the number of outcomes and none is negative
C28_CountsPartition ==
    pc = "done" =>
        /\ report.totalTables = Len(results)
        /\ report.errors = NumberOf(LAMBDA r : r.Error # "")
        /\ report.matchedTables = NumberOf(LAMBDA r : r.Error = "" /\ r.Match)
        /\ report.mismatched = NumberOf(LAMBDA r : r.Error = "" /\ ~r.Match)
        /\ report.matchedTables + report.mismatched + report.errors
              = report.totalTables
        /\ report.matchedTables >= 0
        /\ report.mismatched >= 0
        /\ report.errors >= 0

C28_Witness ==
    /\ pc = "done"
    /\ report.totalTables = 2
    /\ report.errors = 1
    /\ report.matchedTables = 1
    /\ \E i \in 1..Len(results) : results[i].Error # "" /\ results[i].Match

\* the sum of the row counts of one side over all outcomes of rs
RECURSIVE RowsOfAll(_, _)
RowsOfAll(rs, side) ==
    IF rs = <<>> THEN 0 ELSE rs[1][side] + RowsOfAll(Tail(rs), side)

\* C29: the row totals of the report are the sums of RemoteRows and of
\* LocalRows over all outcomes GenerateReport was given
C29_RowTotalsOverAll ==
    pc = "done" =>
        /\ report.totalRemoteRows = RowsOfAll(results, "RemoteRows")
        /\ report.totalLocalRows = RowsOfAll(results, "LocalRows")

\* the errors of Validate
ValidationErrors ==
    {"remote.host is required", "remote.database is required",
     "remote.user is required", "local.host is required",
     "local.database is required",
     "migration.batch_size must be greater than 0"}

\* C30: Load rejects every configuration whose batch size is <= 0 (the
\* program ends before the command runs), so the command, and the
\* DataMigrator it builds, run with BatchSize >= 1
C30_BatchSizePositive ==
    /\ (loaded.Migration.BatchSize <= 0 /\ pc # "load") =>
          (pc = "fatal" /\ runErr \in ValidationErrors /\ m = NoHandles)
    /\ (pc # "load" /\ runErr \notin ValidationErrors) =>
          (config = loaded.Migration /\ config.BatchSize >= 1)
    /\ m # NoHandles => config.BatchSize >= 1

C30_WitnessMigratorRuns ==
    /\ m # NoHandles
    /\ config.BatchSize = MaxBatch
    /\ batchCount = MaxBatch
    /\ pc # "load"

C30_Witness ==
    /\ loaded.Migration.BatchSize = 0
    /\ Validate([loaded EXCEPT !.Migration.BatchSize = 1]) = ""
    /\ pc = "fatal"

\* --------------------------------------------------------------- C31
\* C31: when a run with truncate enabled has ended, every table with a
\* Success outcome holds in the destination as many rows as its outcome
\* reports: the truncate of a later table has removed none of them.
C31_SuccessfulRowsKept ==
    (pc = "done" /\ cmd # "schema" /\ config.TruncateTables) =>
        \A i \in 1..Len(results) :
            results[i].Success =>
                results[i].RowsMigrated
                    = Len(db[m.localDB][results[i].Table])

\* --------------------------------------------------------------- C32
\* C32: every outcome of MigrateAll has Success = (Error = nil) and
\* RowsMigrated >= 0, and a failed outcome has RowsMigrated = 0 however many
\* batches were committed before the failure.
C32_ResultInvariants ==
    \A i \in 1..Len(results) :
        /\ results[i].Success = (results[i].Error = "")
        /\ results[i].RowsMigrated >= 0
        /\ ~results[i].Success => results[i].RowsMigrated = 0

\* a copy that failed after it had committed a full batch
C32_Witness ==
    /\ JustReturned
    /\ ~LastResult.Success
    /\ LastResult.RowsMigrated = 0
    /\ FullBatches(LastTable) >= 1
    /\ Len(db[m.localDB][LastTable]) >= config.BatchSize

\* --------------------------------------------------------------- C33
\* the calls that begin or end a transaction, in the order they were
\* issued: the successful BeginTx calls, the commits and the rollbacks
TxCalls ==
    SelectSeq(log, LAMBDA c : \/ c.op = "begin" /\ c.ok
                              \/ c.op \in {"commit", "rollback"})

\* C33: at most one destination transaction is open at any time, every
\* transaction begun is ended by exactly one commit or rollback before the
\* next one begins, and none is open when migrateTable has returned,
\* whatever the path it returned on.
C33_OneTxAtATime ==
    /\ \A i \in 1..Len(TxCalls) :
          /\ (TxCalls[i].op = "begin") <=> (i % 2 = 1)
          /\ TxCalls[i].db = m.localDB
          /\ i % 2 = 0 => TxCalls[i].table = TxCalls[i - 1].table
    /\ (tx = "open") <=> (Len(TxCalls) % 2 = 1)
    /\ tx \in {"open", "none"}
    /\ tx = "open" => pc \in CopyPcs
    /\ pc \notin CopyPcs => (tx = "none" /\ Len(TxCalls) % 2 = 0)

\* a copy that committed a batch and then returned on a failed insert
C33_Witness ==
    /\ JustReturned
    /\ LastResult.Error = "failed to insert row"
    /\ FullBatches(LastTable) >= 1
    /\ tx = "none"
    /\ TxCalls[Len(TxCalls)].op = "rollback"
    /\ Len(TxCalls) >= 4

\* --------------------------------------------------------------- C34
\* the calls that read: catalog listing, column listing, row select, cursor
\* step, row scan, row count
ReadOps == {"listTables", "listColumns", "select", "next", "scan", "count"}

\* the calls that change the rows of a table or belong to a transaction
\* that does
WriteOps == {"truncate", "prepare", "begin", "insert", "commit", "rollback"}

\* every call issued to the source is a read, every write goes to the
\* destination, and the verify command issues reads only
C34_ReadsOnly ==
    \A i \in 1..Len(log) :
        /\ log[i].op \in ReadOps \cup WriteOps
        /\ log[i].db = m.remoteDB => log[i].op \in ReadOps
        /\ log[i].op \in WriteOps => log[i].db = m.localDB
        /\ cmd = "verify" => log[i].op \in {"listTables", "count"}

\* no step changes the rows of the source, and no step of the verify
\* command changes the rows of either database
C34_SourceKept ==
    /\ m # NoHandles => db'[m.remoteDB] = db[m.remoteDB]
    /\ m = NoHandles => db' = db
    /\ cmd = "verify" => db' = db

\* C34: replication and verification never modify the source: MigrateAll
\* issues only reads to the source and sends every truncate and insert to
\* the destination, and VerifyAll and VerifySchema issue only reads to both
\* databases.
C34_SourceNeverModified == [](C34_ReadsOnly) /\ [][C34_SourceKept]_vars

\* a run that truncated the destination, read the source and committed rows
C34_Witness ==
    /\ pc = "done"
    /\ cmd # "verify"
    /\ \E i, j, k \in 1..Len(log) :
          /\ log[i].op = "truncate" /\ log[i].ok
          /\ log[j].op = "select" /\ log[j].db = m.remoteDB /\ log[j].ok
          /\ log[k].op = "commit" /\ log[k].ok /\ log[k].n > 0
    /\ db[m.remoteDB]["orders"] # <<>>

\* --------------------------------------------------------------- C35
\* the errors Client.Start returns, its own and those of WaitForHealthy
StartErrors ==
    {"docker-compose file not found", "failed to start container",
     "timeout waiting for container to be healthy", "context canceled"}

\* C35: EnsureRunning invokes Start at most once, and only when the status
\* check succeeded, reported the container as not running, and auto-start is
\* enabled; a running container gives success, a failed check gives that
\* error, a stopped container without auto-start gives an error, and
\* otherwise the result is the result of Start.
C35_StartOnlyWhenNeeded ==
    /\ starts \in {0, 1}
    /\ (starts = 1) <=> (isRunning = "stopped" /\ autoStart)
    /\ pc \in {"dockerStart", "waitForHealthy"} => starts = 1
    /\ pc \in {"done", "fatal"} =>
          /\ isRunning = "running" => (pc = "done" /\ runErr = "")
          /\ isRunning = "error" =>
                (pc = "fatal" /\ runErr = "failed to check container status")
          /\ (isRunning = "stopped" /\ ~autoStart) =>
                (pc = "fatal" /\ runErr \notin StartErrors \cup {""})
          /\ starts = 1 =>
                /\ runErr \in StartErrors \cup {""}
                /\ (pc = "done") <=> (runErr = "")

\* a stopped container that was started once and became healthy
C35_Witness ==
    /\ pc = "done"
    /\ isRunning = "stopped"
    /\ autoStart
    /\ starts = 1
    /\ runErr = ""

\* --------------------------------------------------------------- C36
\* WaitForHealthy returns nil only from a poll that found the container
\* running and Postgres accepting connections; it returns the timeout error
\* only once the deadline has passed and the context's error only once the
\* context is cancelled
C36_ReturnsJustified ==
    /\ (pc = "waitForHealthy" /\ pc' = "done") =>
          (running /\ ready /\ lastPoll' = "ready" /\ elapsed' < Timeout)
    /\ (pc = "waitForHealthy" /\ pc' = "fatal") =>
          \/ runErr' = "timeout waiting for container to be healthy"
                /\ elapsed' >= Timeout
          \/ runErr' = "context canceled" /\ cancelled

\* C36: WaitForHealthy returns success only after a poll in which the
\* container is running and the readiness probe succeeds, and it always
\* returns: with success, with the timeout error after the deadline, or with
\* the context's error after a cancellation.
C36_WaitTerminates ==
    /\ [][C36_ReturnsJustified]_vars
    /\ (pc = "waitForHealthy") ~> (pc \in {"done", "fatal"})

\* the container never became healthy and the wait ended at the deadline
C36_Witness ==
    /\ pc = "fatal"
    /\ runErr = "timeout waiting for container to be healthy"
    /\ lastPoll = "notReady"
    /\ ~cancelled
    /\ elapsed >= Timeout

============================================================================
